---- MODULE Spec2Model ----
(***************************************************************************)
(* Model of old_python_code/scheduler: the schedule enumeration and        *)
(* constraint engine of scheduler.py (generate_section_options,            *)
(* times_conflict, generate_all_schedules), the scoring functions of       *)
(* prof_scoring.py, the course-code functions of gatherer.py and the run   *)
(* of main with its configuration, caches, ranking and export, and the     *)
(* helpers apply_unavailable_patches and count_languages on their own.      *)
(*                                                                         *)
(* An ordered Python dict is a sequence of its values in insertion order;  *)
(* a Component carries its dict key as guid, a Section its dict key as id. *)
(* None is the empty sequence << >>, a value v that may be None is <<v>>.  *)
(***************************************************************************)
EXTENDS Integers, Sequences, FiniteSets, TLC

VARIABLES
    courses_data,       \* argument: sequence of [course_code, english, french]
    max_english,        \* argument: -1 means no limit
    max_french,         \* argument: -1 means no limit
    no_weekends,        \* argument: BOOLEAN
    max_days,           \* argument: << >> is None, <<k>> is the integer k
    pc,                 \* position in generate_all_schedules
    all_course_options, \* per course, its options in generation order
    course_codes,       \* course codes in courses_data order
    total_valid_combos, \* product of the per-course option counts
    indices,            \* position of itertools.product: one index per course
    total_checked,      \* candidates enumerated so far
    all_times,          \* time tuples of the last candidate that reached the conflict test
    conflict,           \* result of the last conflict test
    valid_schedules,    \* accepted candidates, in order of acceptance
    \* main
    env,                \* the world around main: settings, catalogue, pages, cache file
    config,             \* config.json as loaded: a dict, some keys possibly missing
    args,               \* the parsed command line
    mpc,                \* position in main
    run,                \* number of the current run of main
    now,                \* time.time()
    scheduler_cache,    \* scheduler_cache.json: cache key -> entry
    prof_scores_cache,  \* prof_scores_cache.json: entries in insertion order
    prof_data_map,      \* << >> is None, <<entries>> the dict of fetch_all_prof_data
    provider_calls,     \* instructors get_relevant_data was called for in this run
    enumerated,         \* what generate_all_schedules returned to main
    schedules_with_scores, \* the (schedule, score) pairs of the ranking
    exported,           \* export_data / the printed schedules of this run
    prev,               \* what the run before this one was given and produced
    \* a pure function applied on its own
    call,               \* the function and its arguments
    result              \* the values returned so far: << >> before the first return

genVars == <<courses_data, max_english, max_french, no_weekends, max_days, pc,
             all_course_options, course_codes, total_valid_combos, indices,
             total_checked, all_times, conflict, valid_schedules>>

mainVars == <<env, config, args, mpc, run, now, scheduler_cache,
              prof_scores_cache, prof_data_map, provider_calls, enumerated,
              schedules_with_scores, exported, prev>>

callVars == <<call, result>>

vars == <<genVars, mainVars, callVars>>

-----------------------------------------------------------------------------
(* Bounds of the model *)

MaxCourses == 2
MaxComps == 2
MaxSectionComps == 2
MaxTick == 4

-----------------------------------------------------------------------------
(* Data model: models.py *)

StatusValues == {"OPEN", "CLOSED", "FULL", "WAITLIST"}
TypeValues == {"LEC", "LAB", "TUT", "DGD", "SEM", "WRK"}
DayValues == {"MO", "TU", "WE", "TH", "FR", "SA", "SU"}

DAY_MAP ==
    "MO" :> 0 @@ "TU" :> 1 @@ "WE" :> 2 @@ "TH" :> 3 @@ "FR" :> 4 @@
    "SA" :> 5 @@ "SU" :> 6

OtherTypes == <<"LAB", "TUT", "DGD", "SEM", "WRK">>

Range(s) == {s[i] : i \in 1..Len(s)}

-----------------------------------------------------------------------------
(* Pure functions of scheduler.py *)

component_to_time_tuple(component) ==
    <<DAY_MAP[component.day],
      component.start_timestamp \div 60,
      component.end_timestamp \div 60>>

(* times_conflict with strict comparisons *)
times_conflict_Strict(t1, t2) ==
    t1[1] = t2[1] /\ ~(t1[3] < t2[2] \/ t2[3] < t1[2])

times_conflict(t1, t2) ==
    t1[1] = t2[1] /\ ~(t1[3] <= t2[2] \/ t2[3] <= t1[2])

(* itertools.product over a sequence of sequences: the sequence of all      *)
(* tuples, the rightmost position advancing fastest.                        *)
RECURSIVE Product(_)
Product(lists) ==
    IF lists = << >> THEN << << >> >>
    ELSE LET h == Head(lists)
             rest == Product(Tail(lists))
             n == Len(rest)
         IN [k \in 1..(Len(h) * n) |->
                <<h[((k - 1) \div n) + 1]>> \o rest[((k - 1) % n) + 1]]

all_components_by_type(section, t) ==
    SelectSeq(section.components, LAMBDA comp : comp.type = t)

open_components_by_type(section, t) ==
    SelectSeq(section.components,
              LAMBDA comp : comp.status = "OPEN" /\ comp.type = t)

(* Step 1 as the rule of the other types: discard only if no lecture is open *)
LecturesRejected_NoneOpen(section) ==
    /\ Len(all_components_by_type(section, "LEC")) > 0
    /\ Len(open_components_by_type(section, "LEC")) = 0

(* Step 1 left out *)
LecturesRejected_Never(section) == FALSE

(* Validation step 1: the section is discarded if any lecture is not open *)
LecturesRejected(section) ==
    LET all_lectures == all_components_by_type(section, "LEC")
        open_lectures == open_components_by_type(section, "LEC")
    IN Len(all_lectures) > 0 /\ Len(all_lectures) # Len(open_lectures)

(* Validation step 2: a type the section has, with no open instance *)
OtherRejected(section) ==
    \E k \in 1..Len(OtherTypes) :
        /\ Len(all_components_by_type(section, OtherTypes[k])) > 0
        /\ Len(open_components_by_type(section, OtherTypes[k])) = 0

(* The choices drawn from all components of the type, open or not *)
TypeChoices_AnyStatus(section, t) ==
    IF Len(all_components_by_type(section, t)) > 0
    THEN LET all == all_components_by_type(section, t)
         IN [i \in 1..Len(all) |-> <<all[i]>>]
    ELSE << << >> >>

(* lab_choices, tut_choices, ...: [[]] when the type is absent *)
TypeChoices(section, t) ==
    IF Len(all_components_by_type(section, t)) > 0
    THEN LET open == open_components_by_type(section, t)
         IN [i \in 1..Len(open) |-> <<open[i]>>]
    ELSE << << >> >>

generate_section_options(section) ==
    IF LecturesRejected(section) THEN << >>
    ELSE IF OtherRejected(section) THEN << >>
    ELSE LET required_lectures == open_components_by_type(section, "LEC")
             prod == Product([k \in 1..Len(OtherTypes) |->
                                 TypeChoices(section, OtherTypes[k])])
         IN [k \in 1..Len(prod) |->
                [section |-> section,
                 components |-> required_lectures \o prod[k][1] \o prod[k][2]
                                \o prod[k][3] \o prod[k][4] \o prod[k][5]]]

(* opt['language'] = ...; opt['course_code'] = ... *)
TagOption(opt, language, course_code) ==
    [section |-> opt.section, components |-> opt.components,
     language |-> language, course_code |-> course_code]

TagOptions(opts, language, course_code) ==
    [k \in 1..Len(opts) |-> TagOption(opts[k], language, course_code)]

(* for option in combo: for component in option['components'] *)
RECURSIVE ComboComponents(_)
ComboComponents(combo) ==
    IF combo = << >> THEN << >>
    ELSE Head(combo).components \o ComboComponents(Tail(combo))

english_count(combo) ==
    Cardinality({i \in 1..Len(combo) : combo[i].language = "english"})

french_count(combo) ==
    Cardinality({i \in 1..Len(combo) : combo[i].language = "french"})

(* has_weekend_classes looking for Saturday only *)
has_weekend_classes_SaturdayOnly(schedule_combo) ==
    \E i \in 1..Len(schedule_combo) :
        \E j \in 1..Len(schedule_combo[i].components) :
            schedule_combo[i].components[j].day \in {"SA"}

has_weekend_classes(schedule_combo) ==
    \E i \in 1..Len(schedule_combo) :
        \E j \in 1..Len(schedule_combo[i].components) :
            schedule_combo[i].components[j].day \in {"SA", "SU"}

(* count_unique_days returning after the first option *)
count_unique_days_FirstOption(schedule_combo) ==
    IF schedule_combo = << >> THEN 0
    ELSE Cardinality({Head(schedule_combo).components[k].day :
                         k \in 1..Len(Head(schedule_combo).components)})

count_unique_days(schedule_combo) ==
    LET comps == ComboComponents(schedule_combo)
    IN Cardinality({comps[k].day :
                       k \in {k \in 1..Len(comps) : comps[k].day # ""}})

AllTimes(combo) ==
    LET comps == ComboComponents(combo)
    IN [k \in 1..Len(comps) |-> component_to_time_tuple(comps[k])]

(* The all-pairs test with the inner range one short *)
HasConflict_SkipsLast(times) ==
    \E i \in 1..Len(times) : \E j \in (i + 1)..(Len(times) - 1) :
        times_conflict(times[i], times[j])

(* The all-pairs test over all_times, i < j *)
HasConflict(times) ==
    \E i \in 1..Len(times) : \E j \in (i + 1)..Len(times) :
        times_conflict(times[i], times[j])

-----------------------------------------------------------------------------
(* generate_all_schedules as a state machine *)

(* generate_section_options on each section of one language, in dict order, *)
(* every option tagged and appended to section_choices                      *)
RECURSIVE LanguageChoices(_, _, _)
LanguageChoices(sections, language, course_code) ==
    IF sections = << >> THEN << >>
    ELSE TagOptions(generate_section_options(Head(sections)), language, course_code)
         \o LanguageChoices(Tail(sections), language, course_code)

(* One iteration of: for course_code, lang_sections in courses_data.items() *)
BuildCourse ==
    /\ pc = "build"
    /\ LET course == courses_data[Len(all_course_options) + 1]
           section_choices ==
               LanguageChoices(course.english, "english", course.course_code)
               \o LanguageChoices(course.french, "french", course.course_code)
       IN /\ course_codes' = Append(course_codes, course.course_code)
          /\ all_course_options' = Append(all_course_options, section_choices)
    /\ pc' = IF Len(all_course_options) + 1 < Len(courses_data)
             THEN "build" ELSE "count"
    /\ UNCHANGED <<courses_data, max_english, max_french, no_weekends,
                   max_days, total_valid_combos, indices, total_checked,
                   all_times, conflict, valid_schedules>>
    /\ UNCHANGED <<mainVars, callVars>>

RECURSIVE ProductOfLengths(_)
ProductOfLengths(lists) ==
    IF lists = << >> THEN 1
    ELSE Len(Head(lists)) * ProductOfLengths(Tail(lists))

(* A product that yields nothing when there is no course at all *)
CountCombos_NoCourseNoTuple ==
    /\ pc = "count"
    /\ total_valid_combos' = ProductOfLengths(all_course_options)
    /\ indices' = [i \in 1..Len(all_course_options) |-> 1]
    /\ pc' = IF \/ Len(all_course_options) = 0
                \/ \E i \in 1..Len(all_course_options) :
                       Len(all_course_options[i]) = 0
             THEN "return" ELSE "loop"
    /\ UNCHANGED <<courses_data, max_english, max_french, no_weekends,
                   max_days, all_course_options, course_codes,
                   total_checked, all_times, conflict, valid_schedules>>
    /\ UNCHANGED <<mainVars, callVars>>

(* total_valid_combos, then the start of itertools.product: its first      *)
(* tuple, or exhaustion at once when some course has no option.            *)
CountCombos ==
    /\ pc = "count"
    /\ total_valid_combos' = ProductOfLengths(all_course_options)
    /\ indices' = [i \in 1..Len(all_course_options) |-> 1]
    /\ pc' = IF \E i \in 1..Len(all_course_options) :
                    Len(all_course_options[i]) = 0
             THEN "return" ELSE "loop"
    /\ UNCHANGED <<courses_data, max_english, max_french, no_weekends,
                   max_days, all_course_options, course_codes,
                   total_checked, all_times, conflict, valid_schedules>>
    /\ UNCHANGED <<mainVars, callVars>>

(* The tuple itertools.product yields at position idx *)
ComboAt(idx) ==
    [i \in 1..Len(all_course_options) |-> all_course_options[i][idx[i]]]

(* Positions that can still advance *)
Advanceable(idx) == {i \in 1..Len(idx) : idx[i] < Len(all_course_options[i])}

(* A product whose leftmost position advances fastest *)
NextIndices_LeftmostFastest(idx) ==
    LET p == CHOOSE i \in Advanceable(idx) :
                 \A j \in Advanceable(idx) : i <= j
    IN [i \in 1..Len(idx) |->
           IF i < p THEN 1 ELSE IF i = p THEN idx[i] + 1 ELSE idx[i]]

(* The next position of itertools.product: the rightmost index that can    *)
(* advance does, and every index to its right restarts.                    *)
NextIndices(idx) ==
    LET p == CHOOSE i \in Advanceable(idx) :
                 \A j \in Advanceable(idx) : j <= i
    IN [i \in 1..Len(idx) |->
           IF i < p THEN idx[i] ELSE IF i = p THEN idx[i] + 1 ELSE 1]

(* The English check without the -1 sentinel *)
EnglishRejected_NoSentinel(combo, bound) == english_count(combo) > bound

(* The checks of one candidate, in the order of the loop body *)
EnglishRejected(combo, bound) ==
    bound # -1 /\ english_count(combo) > bound

FrenchRejected(combo, bound) ==
    bound # -1 /\ french_count(combo) > bound

WeekendRejected(combo, flag) == flag /\ has_weekend_classes(combo)

DaysRejected(combo, bound) ==
    bound # << >> /\ count_unique_days(combo) > bound[1]

ReachesConflictTest(combo) ==
    /\ ~EnglishRejected(combo, max_english)
    /\ ~FrenchRejected(combo, max_french)
    /\ ~WeekendRejected(combo, no_weekends)
    /\ ~DaysRejected(combo, max_days)

(* One iteration of the loop over itertools.product of all_course_options *)
CheckCombo ==
    /\ pc = "loop"
    /\ total_checked' = total_checked + 1
    /\ LET combo == ComboAt(indices)
       IN IF ReachesConflictTest(combo)
          THEN /\ all_times' = AllTimes(combo)
               /\ conflict' = HasConflict(AllTimes(combo))
               /\ valid_schedules' =
                      IF ~HasConflict(AllTimes(combo))
                      THEN Append(valid_schedules, combo)
                      ELSE valid_schedules
          ELSE UNCHANGED <<all_times, conflict, valid_schedules>>
    /\ IF Advanceable(indices) # {}
       THEN indices' = NextIndices(indices) /\ pc' = "loop"
       ELSE indices' = indices /\ pc' = "return"
    /\ UNCHANGED <<courses_data, max_english, max_french, no_weekends,
                   max_days, all_course_options, course_codes,
                   total_valid_combos>>
    /\ UNCHANGED <<mainVars, callVars>>

(* return valid_schedules *)
Return ==
    /\ pc = "return"
    /\ pc' = "done"
    /\ UNCHANGED <<courses_data, max_english, max_french, no_weekends,
                   max_days, all_course_options, course_codes,
                   total_valid_combos, indices, total_checked, all_times,
                   conflict, valid_schedules>>
    /\ UNCHANGED <<mainVars, callVars>>

Next ==
    \/ BuildCourse
    \/ CountCombos
    \/ CheckCombo
    \/ Return

-----------------------------------------------------------------------------
(* Inputs *)

CourseCodePool == <<"ITI1100", "MAT1320", "CSI2110", "PHY1321">>
SectionIdPool == <<"A", "B", "C", "D">>

(* A component as the data provider delivers it: the fields the engine reads *)
MkComponent(shape, guid) ==
    [guid |-> guid, type |-> shape.type, status |-> shape.status,
     day |-> shape.day, start_timestamp |-> shape.start_timestamp,
     end_timestamp |-> shape.end_timestamp]

(* A Section built from section_data: the components dict keyed by guid *)
MkSection(shapes, code, lang, k) ==
    [id |-> SectionIdPool[k],
     components |-> [i \in 1..Len(shapes) |->
                        MkComponent(shapes[i], <<code, lang, SectionIdPool[k], i>>)]]

MkCourse(shape, c) ==
    [course_code |-> CourseCodePool[c],
     english |-> [k \in 1..Len(shape.english) |->
                     MkSection(shape.english[k], CourseCodePool[c], "english", k)],
     french |-> [k \in 1..Len(shape.french) |->
                    MkSection(shape.french[k], CourseCodePool[c], "french", k)]]

MkCoursesData(shapes) == [c \in 1..Len(shapes) |-> MkCourse(shapes[c], c)]

(* main has not been entered: generate_all_schedules is called directly *)
MainIdle ==
    /\ env = << >>
    /\ config = << >>
    /\ args = << >>
    /\ mpc = "idle"
    /\ run = 0
    /\ now = 0
    /\ scheduler_cache = << >>
    /\ prof_scores_cache = << >>
    /\ prof_data_map = << >>
    /\ provider_calls = << >>
    /\ enumerated = << >>
    /\ schedules_with_scores = << >>
    /\ exported = << >>
    /\ prev = << >>

(* no pure function is being applied on its own *)
CallIdle == call = [fn |-> "none"] /\ result = << >>

InitWith(data, me, mf, nw, md) ==
    /\ MainIdle
    /\ CallIdle
    /\ courses_data = data
    /\ max_english = me
    /\ max_french = mf
    /\ no_weekends = nw
    /\ max_days = md
    /\ pc = IF Len(data) > 0 THEN "build" ELSE "count"
    /\ all_course_options = << >>
    /\ course_codes = << >>
    /\ total_valid_combos = 1
    /\ indices = << >>
    /\ total_checked = 0
    /\ all_times = << >>
    /\ conflict = FALSE
    /\ valid_schedules = << >>

Slot(d, s, e) == [day |-> d, start_timestamp |-> s, end_timestamp |-> e]

Shape(t, st, slot) ==
    [type |-> t, status |-> st, day |-> slot.day,
     start_timestamp |-> slot.start_timestamp,
     end_timestamp |-> slot.end_timestamp]

(* Constraint values: -1 is the unlimited sentinel, << >> is max_days=None *)
LangBounds == {-1, 0, 1}
DayBounds == {<< >>, <<1>>, <<2>>}

(* Monday 08:30-10:00, Monday 10:00-11:30 touching it, Saturday 08:30-10:00 *)
GridSlots ==
    {Slot("MO", 30600, 36000), Slot("MO", 36000, 41400),
     Slot("SA", 30600, 36000)}

(* Monday 08:30-10:00, Monday 09:30-10:30 overlapping it, Sunday 08:30-10:00 *)
SmallSlots ==
    {Slot("MO", 30600, 36000), Slot("MO", 34200, 37800),
     Slot("SU", 30600, 36000)}

(* Every course offered in both languages, one open lecture per section *)
GridCourses ==
    {[english |-> << <<Shape("LEC", "OPEN", e)>> >>,
      french |-> << <<Shape("LEC", "OPEN", f)>> >>] :
        e \in GridSlots, f \in GridSlots}

GridInputs == [1..MaxCourses -> GridCourses]

(* Lectures and labs: an OPEN one in any small slot, a CLOSED one (which   *)
(* no option ever contains) in the first                                   *)
SmallComponents ==
    {Shape(t, "OPEN", slot) : t \in {"LEC", "LAB"}, slot \in SmallSlots}
    \cup {Shape(t, "CLOSED", Slot("MO", 30600, 36000)) : t \in {"LEC", "LAB"}}

SmallSections == UNION {[1..n -> SmallComponents] : n \in 0..MaxComps}

OneSectionCourses(sections) ==
    {[english |-> <<sec>>, french |-> << >>] : sec \in sections}
    \cup {[english |-> << >>, french |-> <<sec>>] : sec \in sections}

(* One course with a single section of up to MaxComps components *)
SingleInputs == {<<c>> : c \in OneSectionCourses(SmallSections)}

(* Courses without any option: no section at all, or a discarded section *)
OptionlessCourses ==
    {[english |-> << >>, french |-> << >>],
     [english |-> << <<Shape("LEC", "CLOSED", Slot("MO", 30600, 36000))>> >>,
      french |-> << >>],
     [english |-> << >>,
      french |-> << <<Shape("LAB", "CLOSED", Slot("MO", 30600, 36000))>> >>]}

(* A course without options beside a course of one one-component section *)
MixedInputs ==
    LET others == OneSectionCourses([1..1 -> SmallComponents])
    IN {<<z, c>> : z \in OptionlessCourses, c \in others}
       \cup {<<c, z>> : z \in OptionlessCourses, c \in others}

SchedInputs == {<< >>} \cup GridInputs \cup SingleInputs \cup MixedInputs

Init ==
    \E shapes \in SchedInputs :
        \E me \in LangBounds, mf \in LangBounds, nw \in BOOLEAN, md \in DayBounds :
            InitWith(MkCoursesData(shapes), me, mf, nw, md)

Spec == Init /\ [][Next]_vars

-----------------------------------------------------------------------------
(* Inputs for generate_section_options: one course of one section *)

(* The k-th component of a section meets on Monday, 90 minutes after the   *)
(* one before it, so that no two components of the section conflict        *)
PositionSlot(k) == Slot("MO", 30600 + 5400 * (k - 1), 30600 + 5400 * (k - 1) + 4800)

PlaceSection(kinds) ==
    [k \in 1..Len(kinds) |-> Shape(kinds[k].type, kinds[k].status, PositionSlot(k))]

(* Up to MaxSectionComps components of any type and status, and longer     *)
(* sections over three types and two statuses                              *)
SectionKinds ==
    UNION {[1..n -> [type : TypeValues, status : StatusValues]] :
              n \in 0..MaxSectionComps}
    \cup UNION {[1..n -> [type : {"LEC", "LAB", "TUT"}, status : {"OPEN", "CLOSED"}]] :
                   n \in 0..(MaxSectionComps + 2)}

SectionInputs ==
    {<<c>> : c \in OneSectionCourses({PlaceSection(kinds) : kinds \in SectionKinds})}

InitSection ==
    \E shapes \in SectionInputs :
        InitWith(MkCoursesData(shapes), -1, -1, FALSE, << >>)

SpecSection == InitSection /\ [][Next]_vars

-----------------------------------------------------------------------------
(* Inputs for times_conflict: one section of two open lectures, on any two *)
(* days, with any start and end timestamps in steps of 30 seconds          *)

Stamps == {30 * k : k \in 0..MaxTick}

AnySlots == {Slot(d, st, en) : d \in DayValues, st \in Stamps, en \in Stamps}

ConflictInputs ==
    {<<[english |-> << <<Shape("LEC", "OPEN", a), Shape("LEC", "OPEN", b)>> >>,
        french |-> << >>]>> : a \in AnySlots, b \in AnySlots}

InitConflict ==
    \E shapes \in ConflictInputs :
        InitWith(MkCoursesData(shapes), -1, -1, FALSE, << >>)

SpecConflict == InitConflict /\ [][Next]_vars

-----------------------------------------------------------------------------
(* Vocabulary of the properties, stated over the returned schedules *)

Returned == pc = "done"

(* The positions <<i, a>> of the components of a schedule: option i,       *)
(* component a of that option                                              *)
Positions(schedule) ==
    UNION {{<<i, a>> : a \in 1..Len(schedule[i].components)} :
              i \in 1..Len(schedule)}

ComponentAt(schedule, p) == schedule[p[1]].components[p[2]]

NumTagged(schedule, language) ==
    Len(SelectSeq(schedule, LAMBDA opt : opt.language = language))

ExceedsEnglish(schedule) ==
    max_english # -1 /\ NumTagged(schedule, "english") > max_english

ExceedsFrench(schedule) ==
    max_french # -1 /\ NumTagged(schedule, "french") > max_french

OnWeekend(schedule) ==
    \E p \in Positions(schedule) : ComponentAt(schedule, p).day \in {"SA", "SU"}

DistinctDays(schedule) ==
    {ComponentAt(schedule, p).day : p \in Positions(schedule)}

ExceedsDays(schedule) ==
    max_days # << >> /\ Cardinality(DistinctDays(schedule)) > max_days[1]

SomeConflict(schedule) ==
    \E p \in Positions(schedule), q \in Positions(schedule) :
        /\ p # q
        /\ times_conflict(component_to_time_tuple(ComponentAt(schedule, p)),
                          component_to_time_tuple(ComponentAt(schedule, q)))

Passes(schedule) ==
    /\ ~ExceedsEnglish(schedule)
    /\ ~ExceedsFrench(schedule)
    /\ ~(no_weekends /\ OnWeekend(schedule))
    /\ ~ExceedsDays(schedule)
    /\ ~SomeConflict(schedule)

(* The candidate space: one option index per course *)
LongestOptionList ==
    IF all_course_options = << >> THEN 0
    ELSE CHOOSE n \in {Len(all_course_options[i]) : i \in 1..Len(all_course_options)} :
             \A i \in 1..Len(all_course_options) : Len(all_course_options[i]) <= n

IndexSpace ==
    {idx \in [1..Len(all_course_options) -> 1..LongestOptionList] :
        \A i \in 1..Len(all_course_options) : idx[i] <= Len(all_course_options[i])}

CandidateOf(idx) ==
    [i \in 1..Len(all_course_options) |-> all_course_options[i][idx[i]]]

Candidates == {CandidateOf(idx) : idx \in IndexSpace}

IsReturned(schedule) ==
    \E k \in 1..Len(valid_schedules) : valid_schedules[k] = schedule

IndexOf(schedule) == CHOOSE idx \in IndexSpace : CandidateOf(idx) = schedule

LexLess(a, b) ==
    \E k \in 1..Len(a) : a[k] < b[k] /\ \A j \in 1..(k - 1) : a[j] = b[j]

-----------------------------------------------------------------------------
(* C1: every returned schedule is conflict-free: times_conflict is false   *)
(* on the time tuples of every two distinct components of the flattened    *)
(* component list, two components of the same option included.             *)
C1_ConflictFree ==
    \A k \in 1..Len(valid_schedules) : ~SomeConflict(valid_schedules[k])

(* A schedule was returned that has two components on the same day, one    *)
(* of them from each of two options, while another candidate was rejected  *)
C1_Witness ==
    /\ Returned
    /\ total_checked > Len(valid_schedules)
    /\ \E k \in 1..Len(valid_schedules) :
           \E p \in Positions(valid_schedules[k]), q \in Positions(valid_schedules[k]) :
               /\ p[1] # q[1]
               /\ ComponentAt(valid_schedules[k], p).day
                  = ComponentAt(valid_schedules[k], q).day

(* C2: the returned list is exactly the passing candidates of the product, *)
(* one option per course in courses_data order, each once, in the          *)
(* lexicographic order of the product.                                     *)
C2_ExactlyPassingInOrder ==
    Returned =>
        /\ \A k \in 1..Len(valid_schedules) :
               /\ valid_schedules[k] \in Candidates
               /\ Passes(valid_schedules[k])
               /\ Len(valid_schedules[k]) = Len(courses_data)
               /\ \A i \in 1..Len(courses_data) :
                      valid_schedules[k][i].course_code = courses_data[i].course_code
        /\ \A c \in Candidates : Passes(c) => IsReturned(c)
        /\ \A k \in 1..Len(valid_schedules), l \in 1..Len(valid_schedules) :
               k < l => LexLess(IndexOf(valid_schedules[k]), IndexOf(valid_schedules[l]))

(* Two courses of two options each, some candidate rejected, and two       *)
(* returned schedules that differ in the first course                      *)
C2_Witness ==
    /\ Returned
    /\ Len(all_course_options) = 2
    /\ Len(all_course_options[1]) = 2 /\ Len(all_course_options[2]) = 2
    /\ Len(valid_schedules) >= 3
    /\ Len(valid_schedules) < total_checked

(* C3: a bounded max_english / max_french is respected by every returned   *)
(* schedule, and an unlimited bound (-1) never rejects: with max_english   *)
(* (max_french) unlimited, every candidate not returned fails another      *)
(* check.                                                                  *)
C3_LanguageBounds ==
    /\ \A k \in 1..Len(valid_schedules) :
           /\ max_english # -1 => NumTagged(valid_schedules[k], "english") <= max_english
           /\ max_french # -1 => NumTagged(valid_schedules[k], "french") <= max_french
    /\ (Returned /\ max_english = -1) =>
           \A c \in Candidates :
               ~IsReturned(c) =>
                   \/ ExceedsFrench(c) \/ (no_weekends /\ OnWeekend(c))
                   \/ ExceedsDays(c) \/ SomeConflict(c)
    /\ (Returned /\ max_french = -1) =>
           \A c \in Candidates :
               ~IsReturned(c) =>
                   \/ ExceedsEnglish(c) \/ (no_weekends /\ OnWeekend(c))
                   \/ ExceedsDays(c) \/ SomeConflict(c)

(* English bounded and French unlimited: a schedule at the bound was       *)
(* returned, with French options in the result, and a candidate over the   *)
(* bound was not                                                           *)
C3_Witness ==
    /\ Returned
    /\ max_english = 1 /\ max_french = -1
    /\ \E k \in 1..Len(valid_schedules) : NumTagged(valid_schedules[k], "english") = 1
    /\ \E k \in 1..Len(valid_schedules) : NumTagged(valid_schedules[k], "french") = 2
    /\ \E c \in Candidates : NumTagged(c, "english") = 2 /\ ~IsReturned(c)

(* C4: with no_weekends no returned schedule has a component on SA or SU;  *)
(* without it a weekend component never causes rejection.                  *)
C4_NoWeekends ==
    /\ no_weekends =>
           \A k \in 1..Len(valid_schedules) : ~OnWeekend(valid_schedules[k])
    /\ (Returned /\ ~no_weekends) =>
           \A c \in Candidates :
               ~IsReturned(c) =>
                   \/ ExceedsEnglish(c) \/ ExceedsFrench(c)
                   \/ ExceedsDays(c) \/ SomeConflict(c)

(* no_weekends set: a Sunday-only candidate that passes every other check  *)
(* was rejected, and a weekday schedule was returned                       *)
C4_Witness ==
    /\ Returned
    /\ no_weekends
    /\ Len(valid_schedules) >= 1
    /\ \E c \in Candidates :
           /\ ~IsReturned(c)
           /\ "SU" \in DistinctDays(c) /\ "SA" \notin DistinctDays(c)
           /\ ~ExceedsEnglish(c) /\ ~ExceedsFrench(c)
           /\ ~ExceedsDays(c) /\ ~SomeConflict(c)

(* C5: with max_days = k every returned schedule has at most k distinct    *)
(* days among all its components; with max_days = None the day count never *)
(* causes rejection.                                                       *)
C5_MaxDays ==
    /\ max_days # << >> =>
           \A k \in 1..Len(valid_schedules) :
               Cardinality(DistinctDays(valid_schedules[k])) <= max_days[1]
    /\ (Returned /\ max_days = << >>) =>
           \A c \in Candidates :
               ~IsReturned(c) =>
                   \/ ExceedsEnglish(c) \/ ExceedsFrench(c)
                   \/ (no_weekends /\ OnWeekend(c)) \/ SomeConflict(c)

(* max_days = 1: a one-day schedule was returned and a two-day candidate   *)
(* that passes every other check was rejected                              *)
C5_Witness ==
    /\ Returned
    /\ max_days = <<1>>
    /\ \E k \in 1..Len(valid_schedules) :
           Cardinality(DistinctDays(valid_schedules[k])) = 1
    /\ \E c \in Candidates :
           /\ ~IsReturned(c)
           /\ Cardinality(DistinctDays(c)) = 2
           /\ ~ExceedsEnglish(c) /\ ~ExceedsFrench(c)
           /\ ~(no_weekends /\ OnWeekend(c)) /\ ~SomeConflict(c)

-----------------------------------------------------------------------------
(* Vocabulary of the properties of generate_section_options *)

Built == pc # "build"

NonLectureTypes == {"LAB", "TUT", "DGD", "SEM", "WRK"}

Sections(language) ==
    UNION {Range(IF language = "english" THEN courses_data[c].english
                 ELSE courses_data[c].french) : c \in 1..Len(courses_data)}

(* The options generate_section_options returned for the section, as they  *)
(* stand, tagged, in all_course_options                                    *)
OptionsOf(section, language) ==
    LET c == CHOOSE c \in 1..Len(courses_data) :
                 section \in Range(IF language = "english"
                                   THEN courses_data[c].english
                                   ELSE courses_data[c].french)
    IN SelectSeq(all_course_options[c],
                 LAMBDA opt : opt.section = section /\ opt.language = language)

ComponentsOf(section) == Range(section.components)

OpenOf(section, t) ==
    {comp \in ComponentsOf(section) : comp.type = t /\ comp.status = "OPEN"}

Offers(section, t) == \E comp \in ComponentsOf(section) : comp.type = t

OfferedTypes(section) == {t \in NonLectureTypes : Offers(section, t)}

SomeLectureNotOpen(section) ==
    \E comp \in ComponentsOf(section) :
        comp.type = "LEC" /\ comp.status \in {"CLOSED", "FULL", "WAITLIST"}

SomeTypeWithoutOpen(section) ==
    \E t \in NonLectureTypes : Offers(section, t) /\ OpenOf(section, t) = {}

Survives(section) == ~SomeLectureNotOpen(section) /\ ~SomeTypeWithoutOpen(section)

(* One OPEN component for each offered non-lecture type *)
Selections(section) ==
    {f \in [OfferedTypes(section) -> ComponentsOf(section)] :
        \A t \in OfferedTypes(section) : f[t] \in OpenOf(section, t)}

-----------------------------------------------------------------------------
(* C6: a section with a LEC component that is not OPEN, or with a          *)
(* non-lecture type none of whose components is OPEN, yields no options;   *)
(* a section violating neither rule is not discarded.                      *)
C6_AvailabilityRules ==
    Built =>
        \A language \in {"english", "french"} :
            \A section \in Sections(language) :
                /\ SomeLectureNotOpen(section) => OptionsOf(section, language) = << >>
                /\ SomeTypeWithoutOpen(section) => OptionsOf(section, language) = << >>
                /\ Survives(section) => OptionsOf(section, language) # << >>

(* A section with two lectures, one OPEN and one WAITLIST, was expanded    *)
C6_Witness ==
    /\ Built
    /\ \E section \in Sections("english") :
           /\ Cardinality(OpenOf(section, "LEC")) = 1
           /\ \E comp \in ComponentsOf(section) :
                  comp.type = "LEC" /\ comp.status = "WAITLIST"
           /\ OptionsOf(section, "english") = << >>

(* C7: a surviving section yields exactly one option per tuple of the      *)
(* product of the OPEN components of its offered non-lecture types: each   *)
(* option is all OPEN lectures plus one OPEN component of each offered     *)
(* type and nothing else, from that section; the options are pairwise      *)
(* distinct and as many as the product of the OPEN counts; a lecture-only  *)
(* section yields one option.                                              *)
C7_OptionsAreTheProduct ==
    Built =>
        \A language \in {"english", "french"} :
            \A section \in Sections(language) :
                Survives(section) =>
                    LET opts == OptionsOf(section, language)
                    IN /\ \A k \in 1..Len(opts) :
                              /\ opts[k].section = section
                              /\ Cardinality(Range(opts[k].components))
                                 = Len(opts[k].components)
                              /\ \E f \in Selections(section) :
                                     Range(opts[k].components)
                                     = OpenOf(section, "LEC")
                                       \cup {f[t] : t \in OfferedTypes(section)}
                       /\ \A f \in Selections(section) :
                              \E k \in 1..Len(opts) :
                                  Range(opts[k].components)
                                  = OpenOf(section, "LEC")
                                    \cup {f[t] : t \in OfferedTypes(section)}
                       /\ \A k \in 1..Len(opts), l \in 1..Len(opts) :
                              k # l => opts[k].components # opts[l].components
                       /\ Len(opts) = Cardinality(Selections(section))
                       /\ (OfferedTypes(section) = {} /\ Offers(section, "LEC"))
                              => Len(opts) = 1

(* A section offering two types with two OPEN components each, one of them *)
(* also with a CLOSED component, was expanded into four options            *)
C7_Witness ==
    /\ Built
    /\ \E section \in Sections("french") :
           /\ Cardinality(OpenOf(section, "LAB")) = 2
           /\ Cardinality(OpenOf(section, "TUT")) = 2
           /\ Len(OptionsOf(section, "french")) = 4

(* C8: a section with zero components yields no options.                   *)
C8_EmptySectionNoOptions ==
    Built =>
        \A language \in {"english", "french"} :
            \A section \in Sections(language) :
                section.components = << >> => OptionsOf(section, language) = << >>

(* C9: times_conflict is true iff the days are equal and neither interval  *)
(* ends at or before the other's start; it is symmetric; same-day          *)
(* intervals that only touch do not conflict.                              *)
C9_TimesConflict ==
    (pc \in {"loop", "return", "done"} /\ Len(all_times) = 2) =>
        LET t1 == all_times[1]
            t2 == all_times[2]
        IN /\ conflict = (t1[1] = t2[1] /\ t1[3] > t2[2] /\ t2[3] > t1[2])
           /\ times_conflict(t1, t2) = conflict
           /\ times_conflict(t2, t1) = conflict
           /\ (t1[1] = t2[1] /\ (t1[3] = t2[2] \/ t2[3] = t1[2])) => ~conflict

(* Two proper same-day intervals that only touch were tested *)
C9_Witness ==
    /\ pc = "done"
    /\ Len(all_times) = 2
    /\ all_times[1][1] = all_times[2][1]
    /\ all_times[1][2] < all_times[1][3]
    /\ all_times[2][2] < all_times[2][3]
    /\ all_times[2][3] = all_times[1][2]
    /\ ~conflict
    /\ Len(valid_schedules) = 1

(* A course none of whose sections survives the availability rules *)
OptionlessCourse(c) ==
    /\ \A section \in Range(courses_data[c].english) : ~Survives(section)
    /\ \A section \in Range(courses_data[c].french) : ~Survives(section)

(* C10: if some course has zero options (no section in either language,    *)
(* or every section discarded), generate_all_schedules returns the empty   *)
(* list, whatever the other courses and the constraints are.               *)
C10_OptionlessCourseEmptiesResult ==
    /\ (Built /\ \E c \in 1..Len(all_course_options) : all_course_options[c] = << >>)
          => (valid_schedules = << >> /\ pc \in {"count", "return", "done"})
    /\ (\E c \in 1..Len(courses_data) : OptionlessCourse(c))
          => valid_schedules = << >>

(* Returned with a course whose only section was discarded after a course  *)
(* that has an option                                                      *)
C10_Witness ==
    /\ Returned
    /\ Len(courses_data) = 2
    /\ all_course_options[1] # << >>
    /\ courses_data[2].english # << >>
    /\ all_course_options[2] = << >>
    /\ valid_schedules = << >>

-----------------------------------------------------------------------------
(* prof_scoring.py: the scoring functions                                   *)
(*                                                                         *)
(* Ratings, grades and scores are counted in units of 0.00001, so that     *)
(* rounding to 4 decimals has something to round. prof_data is << >> for   *)
(* None or <<d>> for a dict d, whose values are << >> for None or <<x>>.   *)

required_keys ==
    <<"rmp_rating", "rmp_difficulty", "prof_overall_grade", "avg_grade_in_courses">>

(* round(x, 4): to the nearest multiple of 0.0001, a tie to the even one *)
round4(x) ==
    LET q == x \div 10
        r == x % 10
    IN 10 * (IF r < 5 THEN q
             ELSE IF r > 5 THEN q + 1
             ELSE IF q % 2 = 0 THEN q ELSE q + 1)

(* The formula with the overall grade counted once *)
calculate_prof_score_GradeOnce(prof_data) ==
    IF prof_data = << >> THEN << >>
    ELSE LET d == prof_data[1]
         IN IF \E k \in 1..Len(required_keys) :
                   \/ required_keys[k] \notin DOMAIN d
                   \/ d[required_keys[k]] = << >>
            THEN << >>
            ELSE <<round4(d["rmp_rating"][1] - d["rmp_difficulty"][1]
                          + d["prof_overall_grade"][1]
                          - d["avg_grade_in_courses"][1])>>

calculate_prof_score(prof_data) ==
    IF prof_data = << >> THEN << >>
    ELSE LET d == prof_data[1]
         IN IF \E k \in 1..Len(required_keys) :
                   \/ required_keys[k] \notin DOMAIN d
                   \/ d[required_keys[k]] = << >>
            THEN << >>
            ELSE <<round4(d["rmp_rating"][1] - d["rmp_difficulty"][1]
                          + d["prof_overall_grade"][1]
                          + d["prof_overall_grade"][1]
                          - d["avg_grade_in_courses"][1])>>

(* instructor in prof_data_map, and prof_data_map[instructor] *)
InMap(map, instructor) == \E k \in 1..Len(map) : map[k].instructor = instructor

MapEntry(map, instructor) ==
    map[CHOOSE k \in 1..Len(map) : map[k].instructor = instructor]

(* The loop of calculate_schedule_score: total_score and missing_profs     *)
(* after the options from position i on                                    *)
RECURSIVE ScoreLoop(_, _, _, _, _)
ScoreLoop(schedule, map, i, total_score, missing_profs) ==
    IF i > Len(schedule)
    THEN [total_score |-> total_score, missing_profs |-> missing_profs]
    ELSE LET instructor == schedule[i].section.instructor
         IN IF InMap(map, instructor) /\ MapEntry(map, instructor).score # << >>
            THEN ScoreLoop(schedule, map, i + 1,
                           total_score + MapEntry(map, instructor).score[1],
                           missing_profs)
            ELSE ScoreLoop(schedule, map, i + 1, total_score,
                           Append(missing_profs, instructor))

(* A schedule's score with the instructors without a score left out *)
calculate_schedule_score_MissingAsZero(schedule, map) ==
    <<round4(ScoreLoop(schedule, map, 1, 0, << >>).total_score)>>

calculate_schedule_score(schedule, map) ==
    LET after == ScoreLoop(schedule, map, 1, 0, << >>)
    IN IF after.missing_profs # << >> THEN << >>
       ELSE <<round4(after.total_score)>>

-----------------------------------------------------------------------------
(* The scoring functions applied on their own *)

Call_calculate_prof_score ==
    /\ call.fn = "calculate_prof_score"
    /\ result = << >>
    /\ result' = <<calculate_prof_score(call.prof_data)>>
    /\ UNCHANGED <<call, genVars, mainVars>>

Call_calculate_schedule_score ==
    /\ call.fn = "calculate_schedule_score"
    /\ result = << >>
    /\ result' = <<calculate_schedule_score(call.schedule, call.prof_data_map)>>
    /\ UNCHANGED <<call, genVars, mainVars>>

NextScore ==
    \/ Call_calculate_prof_score
    \/ Call_calculate_schedule_score

(* generate_all_schedules is not running *)
GenIdle ==
    /\ courses_data = << >>
    /\ max_english = -1
    /\ max_french = -1
    /\ no_weekends = FALSE
    /\ max_days = << >>
    /\ pc = "idle"
    /\ all_course_options = << >>
    /\ course_codes = << >>
    /\ total_valid_combos = 1
    /\ indices = << >>
    /\ total_checked = 0
    /\ all_times = << >>
    /\ conflict = FALSE
    /\ valid_schedules = << >>

(* What a professor page can yield for each input of the formula: nothing, *)
(* None, or one of two values                                              *)
MeasureValues ==
    [rmp_rating |-> {450000, 320000},
     rmp_difficulty |-> {280000, 310000},
     prof_overall_grade |-> {712345, 650004},
     avg_grade_in_courses |-> {700005, 689993}]

ProfDicts ==
    UNION {[keys -> {<< >>} \cup UNION {{<<x>> : x \in MeasureValues[k]} : k \in keys}] :
              keys \in SUBSET Range(required_keys)}

ProfDataInputs ==
    {<< >>} \cup
    {<<d>> : d \in {d \in ProfDicts :
                       \A k \in DOMAIN d : d[k] = << >> \/ d[k][1] \in MeasureValues[k]}}

InstructorPool == <<"Aneta Traikova", "Mohammad Al Ridhawi", "Tommaso Cesari">>

ScorePool == {<< >>, <<-13370>>, <<25000>>}

(* An option of a scored schedule: calculate_schedule_score reads the      *)
(* instructor of the section; the component has an instructor of its own   *)
ScoredOptions ==
    {[section |-> [id |-> "A", instructor |-> i,
                   components |-> <<[guid |-> "A00", instructor |-> j]>>],
      components |-> <<[guid |-> "A00", instructor |-> j]>>] :
        i \in Range(InstructorPool), j \in {InstructorPool[1], InstructorPool[3]}}

ScoredSchedules == UNION {[1..n -> ScoredOptions] : n \in 0..MaxCourses}

(* A dict of some of the instructors, each with a score or None *)
RECURSIVE MapsOver(_)
MapsOver(k) ==
    IF k = 0 THEN {<< >>}
    ELSE LET rest == MapsOver(k - 1)
         IN rest \cup {Append(m, [instructor |-> InstructorPool[k], data |-> << >>,
                                  score |-> sc]) : m \in rest, sc \in ScorePool}

ScoreMaps == MapsOver(Len(InstructorPool))

InitScore ==
    /\ GenIdle
    /\ MainIdle
    /\ result = << >>
    /\ \/ \E d \in ProfDataInputs :
              call = [fn |-> "calculate_prof_score", prof_data |-> d]
       \/ \E sch \in ScoredSchedules, m \in ScoreMaps :
              call = [fn |-> "calculate_schedule_score", schedule |-> sch,
                      prof_data_map |-> m]

SpecScore == InitScore /\ [][NextScore]_vars

-----------------------------------------------------------------------------
(* Vocabulary of the scoring properties *)

Called(fn) == call.fn = fn /\ result # << >>

(* The instructor has a score in the professor map *)
ScoreKnown(map, instructor) ==
    \E k \in 1..Len(map) : map[k].instructor = instructor /\ map[k].score # << >>

KnownScore(map, instructor) ==
    LET k == CHOOSE k \in 1..Len(map) : map[k].instructor = instructor
    IN map[k].score[1]

RECURSIVE SumOfSectionScores(_, _)
SumOfSectionScores(schedule, map) ==
    IF schedule = << >> THEN 0
    ELSE KnownScore(map, Head(schedule).section.instructor)
         + SumOfSectionScores(Tail(schedule), map)

Abs(x) == IF x < 0 THEN -x ELSE x

(* C11: calculate_schedule_score returns the sum of the scores recorded    *)
(* for the section-level instructors of the schedule's options, whatever   *)
(* the instructors of the components, and returns None exactly when one    *)
(* of those instructors is absent from the map or has the score None.      *)
C11_ScheduleScore ==
    Called("calculate_schedule_score") =>
        LET schedule == call.schedule
            map == call.prof_data_map
        IN IF \E i \in 1..Len(schedule) :
                  ~ScoreKnown(map, schedule[i].section.instructor)
           THEN result[1] = << >>
           ELSE result[1] = <<SumOfSectionScores(schedule, map)>>

(* None was returned for a schedule of two options, one whose instructor   *)
(* has a score and one whose instructor is absent from the map, while the  *)
(* instructors of all its components have scores                           *)
C11_Witness ==
    /\ Called("calculate_schedule_score")
    /\ result[1] = << >>
    /\ Len(call.schedule) = 2
    /\ ScoreKnown(call.prof_data_map, call.schedule[1].section.instructor)
    /\ ~InMap(call.prof_data_map, call.schedule[2].section.instructor)
    /\ \A i \in 1..2 :
           ScoreKnown(call.prof_data_map, call.schedule[i].components[1].instructor)

(* C15: calculate_prof_score returns None exactly when prof_data is None   *)
(* or one of rmp_rating, rmp_difficulty, prof_overall_grade and            *)
(* avg_grade_in_courses is missing or None; otherwise it returns           *)
(* rating - difficulty + 2 * overall grade - average course grade,         *)
(* rounded to 4 decimals.                                                  *)
C15_ProfScore ==
    Called("calculate_prof_score") =>
        LET prof_data == call.prof_data
            Unavailable(key) ==
                key \notin DOMAIN prof_data[1] \/ prof_data[1][key] = << >>
            Undefined ==
                \/ prof_data = << >>
                \/ Unavailable("rmp_rating")
                \/ Unavailable("rmp_difficulty")
                \/ Unavailable("prof_overall_grade")
                \/ Unavailable("avg_grade_in_courses")
            Exact ==
                prof_data[1]["rmp_rating"][1] - prof_data[1]["rmp_difficulty"][1]
                + 2 * prof_data[1]["prof_overall_grade"][1]
                - prof_data[1]["avg_grade_in_courses"][1]
        IN /\ result[1] = << >> <=> Undefined
           /\ ~Undefined =>
                  /\ result[1][1] % 10 = 0
                  /\ Abs(result[1][1] - Exact) <= 5

(* A score was returned that rounding moved, for a professor whose overall *)
(* grade is not zero                                                       *)
C15_Witness ==
    /\ Called("calculate_prof_score")
    /\ result[1] # << >>
    /\ call.prof_data[1]["prof_overall_grade"][1] # 0
    /\ result[1][1] #
           call.prof_data[1]["rmp_rating"][1] - call.prof_data[1]["rmp_difficulty"][1]
           + 2 * call.prof_data[1]["prof_overall_grade"][1]
           - call.prof_data[1]["avg_grade_in_courses"][1]

-----------------------------------------------------------------------------
(* gatherer.py: the language of a course code                               *)
(*                                                                         *)
(* A string is the sequence of its characters, a digit character the       *)
(* number it stands for. The code of a course is its four digits.          *)

(* int(course_code[1]) >= 5: Python counts from 0, so the second character *)
is_french(course_code) == course_code[2] >= 5

(* str(n) for an integer n: its decimal digits, after a sign if negative *)
RECURSIVE str(_)
str(n) ==
    IF n < 0 THEN <<"-">> \o str(-n)
    ELSE IF n < 10 THEN <<n>>
    ELSE str(n \div 10) \o <<n % 10>>

language_equivalent(course_code) ==
    LET direction == IF ~is_french(course_code) THEN 1 ELSE -1
        tmp == course_code[2] + 4 * direction
    IN SubSeq(course_code, 1, 1) \o str(tmp)
       \o SubSeq(course_code, 3, Len(course_code))

(* language_equivalent(course_code), and language_equivalent of what it    *)
(* returned                                                                *)
Call_language_equivalent ==
    /\ call.fn = "language_equivalent"
    /\ result = << >>
    /\ result' = <<language_equivalent(call.course_code)>>
    /\ UNCHANGED <<call, genVars, mainVars>>

Call_language_equivalent_again ==
    /\ call.fn = "language_equivalent"
    /\ Len(result) = 1
    /\ result' = Append(result, language_equivalent(result[1]))
    /\ UNCHANGED <<call, genVars, mainVars>>

NextLanguage ==
    \/ Call_language_equivalent
    \/ Call_language_equivalent_again

(* Four-digit codes: any second digit, a few values for the others *)
NumericCodes ==
    {<<y, d, a, b>> : y \in {1, 2, 4}, d \in 0..9, a \in {0, 1, 9}, b \in {0, 5}}

InitLanguage ==
    /\ GenIdle
    /\ MainIdle
    /\ result = << >>
    /\ \E c \in NumericCodes : call = [fn |-> "language_equivalent", course_code |-> c]

SpecLanguage == InitLanguage /\ [][NextLanguage]_vars

(* C17: for every numeric course code, language_equivalent changes only    *)
(* the designated digit, by +4 for an English code and by -4 for a French  *)
(* one, the result is a code of the other language, and applying it twice  *)
(* returns the original code.                                              *)
C17_LanguageEquivalent ==
    Called("language_equivalent") =>
        LET c == call.course_code
            e == result[1]
        IN /\ Len(e) = Len(c)
           /\ \A i \in 1..Len(c) : i # 2 => e[i] = c[i]
           /\ e[2] = IF is_french(c) THEN c[2] - 4 ELSE c[2] + 4
           /\ is_french(e) = ~is_french(c)
           /\ Len(result) = 2 => result[2] = c

-----------------------------------------------------------------------------
(* scheduler.py: the data of main                                           *)
(*                                                                         *)
(* A course code such as ITI1100 is <<"ITI", 1, 1, 0, 0>>: its subject,    *)
(* then its digits. A component label such as A00-LEC is <<"A", "00-LEC">>:*)
(* its first character, then the rest.                                     *)

SCHEDULER_CACHE_EXPIRY == 300

(* subject = course_code[:3]; code = course_code[3:] *)
parse_course_code(course_code) ==
    [subject |-> SubSeq(course_code, 1, 1),
     code |-> SubSeq(course_code, 2, Len(course_code))]

(* The order of str on the subjects the catalogue knows *)
SubjectRank == "CSI" :> 1 @@ "ITI" :> 2 @@ "MAT" :> 3

(* course code a < course code b, as Python compares strings *)
CodeLess(a, b) ==
    \/ SubjectRank[a[1]] < SubjectRank[b[1]]
    \/ /\ a[1] = b[1]
       /\ \E k \in 2..Len(a) :
              /\ a[k] < b[k]
              /\ \A j \in 2..(k - 1) : a[j] = b[j]

(* sorted(course_codes) *)
RECURSIVE sorted(_)
sorted(codes) ==
    IF codes = << >> THEN << >>
    ELSE LET rest == sorted(Tail(codes))
             x == Head(codes)
             before == SelectSeq(rest, LAMBDA y : CodeLess(y, x))
             after == SelectSeq(rest, LAMBDA y : ~CodeLess(y, x))
         IN before \o <<x>> \o after

(* ','.join(sorted(course_codes)): the sorted codes, one after the other *)
get_cache_key(codes) == sorted(codes)

(* cache_entry.get('unavailable_components', []) *)
cached_unavailable(cache_entry) ==
    IF "unavailable_components" \in DOMAIN cache_entry
    THEN cache_entry.unavailable_components
    ELSE << >>

(* A cache entry that is valid whatever unavailable_components it was      *)
(* written under                                                           *)
is_cache_valid_TimeOnly(cache_entry, unavailable_components, current_time) ==
    IF "timestamp" \notin DOMAIN cache_entry THEN FALSE
    ELSE ~((current_time - cache_entry.timestamp) >= SCHEDULER_CACHE_EXPIRY)

(* A cache entry that is still valid when it is exactly as old as the      *)
(* expiry time                                                             *)
is_cache_valid_AtExpiry(cache_entry, unavailable_components, current_time) ==
    IF "timestamp" \notin DOMAIN cache_entry THEN FALSE
    ELSE IF (current_time - cache_entry.timestamp) > SCHEDULER_CACHE_EXPIRY THEN FALSE
    ELSE IF cached_unavailable(cache_entry) # unavailable_components THEN FALSE
    ELSE TRUE

(* A cache entry is a record of the keys it has; current_time is what      *)
(* time.time() returns at the call                                         *)
is_cache_valid(cache_entry, unavailable_components, current_time) ==
    IF "timestamp" \notin DOMAIN cache_entry THEN FALSE
    ELSE IF (current_time - cache_entry.timestamp) >= SCHEDULER_CACHE_EXPIRY THEN FALSE
    ELSE IF cached_unavailable(cache_entry) # unavailable_components THEN FALSE
    ELSE TRUE

(* key in a dict kept as a sequence of entries, dict[key], dict[key] = v *)
HasKey(dict, key) == \E k \in 1..Len(dict) : dict[k].key = key

AtKey(dict, key) == dict[CHOOSE k \in 1..Len(dict) : dict[k].key = key]

SetKey(dict, entry) ==
    IF HasKey(dict, entry.key)
    THEN [k \in 1..Len(dict) |-> IF dict[k].key = entry.key THEN entry ELSE dict[k]]
    ELSE Append(dict, entry)

HasCourse(data, course_code) ==
    \E k \in 1..Len(data) : data[k].course_code = course_code

(* courses_data[course_code] = sections *)
SetCourse(data, course_code, sections) ==
    LET entry == [course_code |-> course_code, english |-> sections.english,
                  french |-> sections.french]
    IN IF HasCourse(data, course_code)
       THEN [k \in 1..Len(data) |->
                IF data[k].course_code = course_code THEN entry ELSE data[k]]
       ELSE Append(data, entry)

(* resolve_req: the sections the catalogue has under a code, {} if none *)
resolve_req(catalogue, course_code) ==
    IF course_code \in DOMAIN catalogue THEN catalogue[course_code] ELSE << >>

(* The sections under the code asked for and under its language           *)
(* equivalent, the first tagged by is_french of the code asked for         *)
fetch_all_sections(catalogue, course_code) ==
    LET p == parse_course_code(course_code)
        results == <<resolve_req(catalogue, p.subject \o p.code),
                     resolve_req(catalogue, p.subject \o language_equivalent(p.code))>>
    IN IF is_french(p.code)
       THEN [english |-> results[2], french |-> results[1]]
       ELSE [english |-> results[1], french |-> results[2]]

(* for course_code in course_codes: courses_data[course_code] = ... *)
RECURSIVE FetchCourses(_, _, _)
FetchCourses(catalogue, codes, data) ==
    IF codes = << >> THEN data
    ELSE FetchCourses(catalogue, Tail(codes),
                      SetCourse(data, Head(codes),
                                fetch_all_sections(catalogue, Head(codes))))

(* The components that carry the label CLOSED in every section, whatever   *)
(* its id                                                                   *)
CloseIn_AnySection(sections, section_id, component_label) ==
    [s \in 1..Len(sections) |->
        LET comps == sections[s].components
        IN [sections[s] EXCEPT !.components =
               [c \in 1..Len(comps) |->
                   IF comps[c].label = component_label
                   THEN [comps[c] EXCEPT !.status = "CLOSED"]
                   ELSE comps[c]]]]

(* The components of the section section_id that carry the label, CLOSED *)
CloseIn(sections, section_id, component_label) ==
    [s \in 1..Len(sections) |->
        IF sections[s].id = section_id
        THEN LET comps == sections[s].components
             IN [sections[s] EXCEPT !.components =
                    [c \in 1..Len(comps) |->
                        IF comps[c].label = component_label
                        THEN [comps[c] EXCEPT !.status = "CLOSED"]
                        ELSE comps[c]]]
        ELSE sections[s]]

(* The course a patch is applied to: the one it names, else its language   *)
(* equivalent, else none                                                   *)
TargetCourse(data, course_code) ==
    LET p == parse_course_code(course_code)
        equivalent_course_code == p.subject \o language_equivalent(p.code)
    IN IF HasCourse(data, course_code) THEN <<course_code>>
       ELSE IF HasCourse(data, equivalent_course_code) THEN <<equivalent_course_code>>
       ELSE << >>

(* One iteration of: for patch in unavailable_components *)
ApplyPatch(data, patch) ==
    LET section_id == patch.component[1]
        target_course == TargetCourse(data, patch.course)
    IN IF target_course = << >> THEN data
       ELSE [k \in 1..Len(data) |->
                IF data[k].course_code = target_course[1]
                THEN [data[k] EXCEPT
                         !.english = CloseIn(data[k].english, section_id, patch.component),
                         !.french = CloseIn(data[k].french, section_id, patch.component)]
                ELSE data[k]]

RECURSIVE apply_unavailable_patches(_, _)
apply_unavailable_patches(data, unavailable_components) ==
    IF unavailable_components = << >> THEN data
    ELSE apply_unavailable_patches(ApplyPatch(data, Head(unavailable_components)),
                                   Tail(unavailable_components))

(* The components of the section section_id that carry the label: one      *)
(* patched_count += 1 for each                                              *)
MatchesIn(sections, section_id, component_label) ==
    IF \E s \in 1..Len(sections) : sections[s].id = section_id
    THEN LET section == sections[CHOOSE s \in 1..Len(sections) :
                                    sections[s].id = section_id]
         IN Len(SelectSeq(section.components,
                          LAMBDA component : component.label = component_label))
    ELSE 0

(* What one iteration of the loop over the patches adds to patched_count *)
PatchCount(data, patch) ==
    LET section_id == patch.component[1]
        target_course == TargetCourse(data, patch.course)
    IN IF target_course = << >> THEN 0
       ELSE LET entry == data[CHOOSE k \in 1..Len(data) :
                                 data[k].course_code = target_course[1]]
            IN MatchesIn(entry.english, section_id, patch.component)
               + MatchesIn(entry.french, section_id, patch.component)

(* The value apply_unavailable_patches returns *)
RECURSIVE patched_count(_, _)
patched_count(data, unavailable_components) ==
    IF unavailable_components = << >> THEN 0
    ELSE PatchCount(data, Head(unavailable_components))
         + patched_count(ApplyPatch(data, Head(unavailable_components)),
                         Tail(unavailable_components))

-----------------------------------------------------------------------------
(* fetch_all_prof_data, the ranking and the export *)

(* The loop of fetch_all_prof_data over the instructors in the order the   *)
(* set yields them. cache is the dict in memory, file what                 *)
(* prof_scores_cache.json holds, loaded the cache as load_prof_scores_cache*)
(* returned it; calls lists the calls of get_relevant_data, each with      *)
(* whether the loaded cache had the instructor.                            *)
RECURSIVE FetchLoop_IgnoresCache(_, _, _, _, _, _, _, _)
FetchLoop_IgnoresCache(order, pages, use_cache, loaded, cache, file, map, calls) ==
    IF order = << >>
    THEN [map |-> map, file |-> file, calls |-> calls]
    ELSE LET instructor == Head(order)
             prof_data == pages[instructor]
             entry == [instructor |-> instructor, data |-> prof_data,
                       score |-> calculate_prof_score(prof_data)]
             grown == IF InMap(cache, instructor) THEN cache ELSE Append(cache, entry)
         IN FetchLoop_IgnoresCache(Tail(order), pages, use_cache, loaded, grown,
                      IF use_cache THEN grown ELSE file,
                      Append(map, entry),
                      Append(calls, [instructor |-> instructor,
                                     in_cache |-> InMap(loaded, instructor)]))

RECURSIVE FetchLoop(_, _, _, _, _, _, _, _)
FetchLoop(order, pages, use_cache, loaded, cache, file, map, calls) ==
    IF order = << >>
    THEN [map |-> map, file |-> file, calls |-> calls]
    ELSE LET instructor == Head(order)
         IN IF InMap(cache, instructor)
            THEN FetchLoop(Tail(order), pages, use_cache, loaded, cache, file,
                           Append(map, MapEntry(cache, instructor)), calls)
            ELSE LET prof_data == pages[instructor]
                     entry == [instructor |-> instructor, data |-> prof_data,
                               score |-> calculate_prof_score(prof_data)]
                     grown == Append(cache, entry)
                 IN FetchLoop(Tail(order), pages, use_cache, loaded, grown,
                              IF use_cache THEN grown ELSE file,
                              Append(map, entry),
                              Append(calls, [instructor |-> instructor,
                                             in_cache |-> InMap(loaded, instructor)]))

(* load_prof_scores_cache *)
load_prof_scores_cache(use_cache, file) == IF ~use_cache THEN << >> ELSE file

(* fetch_all_prof_data calling the provider without looking in the cache *)
fetch_all_prof_data_IgnoresCache(order, pages, use_cache, file) ==
    LET cache == load_prof_scores_cache(use_cache, file)
    IN FetchLoop_IgnoresCache(order, pages, use_cache, cache, cache, file, << >>, << >>)

fetch_all_prof_data(order, pages, use_cache, file) ==
    LET cache == load_prof_scores_cache(use_cache, file)
    IN FetchLoop(order, pages, use_cache, cache, cache, file, << >>, << >>)

(* all_instructors: the instructors of all sections of all courses *)
AllInstructors(data) ==
    UNION {{data[k].english[s].instructor : s \in 1..Len(data[k].english)}
           \cup {data[k].french[s].instructor : s \in 1..Len(data[k].french)} :
              k \in 1..Len(data)}

(* The orders in which iterating over a set can yield its elements *)
Orders(S) ==
    {o \in [1..Cardinality(S) -> S] :
        \A i \in 1..Cardinality(S), j \in 1..Cardinality(S) : i # j => o[i] # o[j]}

(* for schedule in valid_schedules: the pairs of the schedules whose score *)
(* is not None                                                             *)
RECURSIVE ScoredPairs(_, _)
ScoredPairs(schedules, map) ==
    IF schedules = << >> THEN << >>
    ELSE LET score == calculate_schedule_score(Head(schedules), map)
         IN (IF score # << >>
             THEN <<[schedule |-> Head(schedules), score |-> score[1]]>>
             ELSE << >>)
            \o ScoredPairs(Tail(schedules), map)

Front(seq) == SubSeq(seq, 1, Len(seq) - 1)

Last(seq) == seq[Len(seq)]

(* A descending sort that puts a pair before the pairs of equal score     *)
(* that came before it                                                     *)
RECURSIVE sort_reverse_TiesReversed(_)
sort_reverse_TiesReversed(pairs) ==
    IF pairs = << >> THEN << >>
    ELSE LET sorted_front == sort_reverse_TiesReversed(Front(pairs))
             x == Last(pairs)
         IN SelectSeq(sorted_front, LAMBDA y : y.score > x.score)
            \o <<x>>
            \o SelectSeq(sorted_front, LAMBDA y : y.score <= x.score)

(* A descending sort in which the pairs of equal score follow the order    *)
(* in which the professor map lists the instructor of their first option   *)
RECURSIVE sort_reverse_TiesByMapOrder(_)
sort_reverse_TiesByMapOrder(pairs) ==
    IF pairs = << >> THEN << >>
    ELSE LET sorted_front == sort_reverse_TiesByMapOrder(Front(pairs))
             x == Last(pairs)
             MapPosition(pair) ==
                 IF pair.schedule = << >> THEN 0
                 ELSE CHOOSE k \in 1..Len(prof_data_map[1]) :
                          prof_data_map[1][k].instructor
                          = pair.schedule[1].section.instructor
             Before(y) ==
                 \/ y.score > x.score
                 \/ y.score = x.score /\ MapPosition(y) <= MapPosition(x)
         IN SelectSeq(sorted_front, Before)
            \o <<x>>
            \o SelectSeq(sorted_front, LAMBDA y : ~Before(y))

(* sort(key=lambda x: x[1], reverse=True): descending, and stable: pairs   *)
(* of equal score keep their order                                         *)
RECURSIVE sort_reverse(_)
sort_reverse(pairs) ==
    IF pairs = << >> THEN << >>
    ELSE LET sorted_front == sort_reverse(Front(pairs))
             x == Last(pairs)
         IN SelectSeq(sorted_front, LAMBDA y : y.score >= x.score)
            \o <<x>>
            \o SelectSeq(sorted_front, LAMBDA y : y.score < x.score)

(* display_course_code of print_schedule and export_schedules_to_json *)
display_course_code(option) ==
    LET p == parse_course_code(option.course_code)
        display_code ==
            IF option.language = "french" /\ ~is_french(p.code)
            THEN language_equivalent(p.code)
            ELSE IF option.language = "english" /\ is_french(p.code)
            THEN language_equivalent(p.code)
            ELSE p.code
    IN p.subject \o display_code

(* course_info, without the components *)
course_info(option) ==
    [course_code |-> display_course_code(option),
     language |-> option.language,
     section_id |-> option.section.id,
     instructor |-> option.section.instructor]

(* What is shown of the schedules: all of them exported, or the first      *)
(* num_to_display printed                                                  *)
Shown(schedules, arguments) ==
    LET num_to_display ==
            IF ~arguments.print THEN Len(schedules)
            ELSE IF arguments.max_display = << >> THEN Len(schedules)
            ELSE IF arguments.max_display[1] < Len(schedules)
            THEN arguments.max_display[1] ELSE Len(schedules)
    IN [k \in 1..num_to_display |->
           [i \in 1..Len(schedules[k]) |-> course_info(schedules[k][i])]]

-----------------------------------------------------------------------------
(* main as a state machine, run after run *)

MaxRuns == 2

ConfigKeysRead == {"courses", "max_english", "max_french"}

(* config.get('unavailable_components', []) *)
UnavailableComponents(cfg) ==
    IF "unavailable_components" \in DOMAIN cfg
    THEN cfg["unavailable_components"] ELSE << >>

(* The command line is parsed, the professor cache cleared if asked, and   *)
(* config.json loaded: a key that is read and missing raises KeyError      *)
LoadConfig ==
    /\ mpc = "start"
    /\ \E setting \in env.settings :
           /\ args' = setting.args
           /\ config' = setting.config
           /\ prof_scores_cache' =
                  IF setting.args.clear_prof_cache THEN << >> ELSE prof_scores_cache
           /\ IF ConfigKeysRead \subseteq DOMAIN setting.config
              THEN /\ max_english' = setting.config["max_english"]
                   /\ max_french' = setting.config["max_french"]
                   /\ mpc' = "cache"
              ELSE /\ UNCHANGED <<max_english, max_french>>
                   /\ mpc' = "KeyError"
    /\ UNCHANGED <<courses_data, no_weekends, max_days, pc, all_course_options,
                   course_codes, total_valid_combos, indices, total_checked,
                   all_times, conflict, valid_schedules>>
    /\ UNCHANGED <<env, run, now, scheduler_cache, prof_data_map, provider_calls,
                   enumerated, schedules_with_scores, exported, prev, callVars>>

(* Where main goes once it has courses_data *)
AfterData == IF args.rank_by_prof THEN "prof" ELSE "generate"

(* The cache entry of the key is used if caching is on and it is valid *)
CacheLookup ==
    /\ mpc = "cache"
    /\ LET cache_key == get_cache_key(config["courses"])
       IN IF /\ ~args.no_cache
             /\ HasKey(scheduler_cache, cache_key)
             /\ is_cache_valid(AtKey(scheduler_cache, cache_key),
                               UnavailableComponents(config), now)
          THEN /\ courses_data' = AtKey(scheduler_cache, cache_key).data
               /\ mpc' = AfterData
          ELSE /\ UNCHANGED courses_data
               /\ mpc' = "fetch"
    /\ UNCHANGED <<max_english, max_french, no_weekends, max_days, pc,
                   all_course_options, course_codes, total_valid_combos, indices,
                   total_checked, all_times, conflict, valid_schedules>>
    /\ UNCHANGED <<env, config, args, run, now, scheduler_cache, prof_scores_cache,
                   prof_data_map, provider_calls, enumerated,
                   schedules_with_scores, exported, prev, callVars>>

(* Every course fetched in the order of the configuration, the patches     *)
(* applied, and the result cached unless caching is off                    *)
FetchFresh ==
    /\ mpc = "fetch"
    /\ LET fetched == FetchCourses(env.catalogue, config["courses"], << >>)
           patched == IF UnavailableComponents(config) # << >>
                      THEN apply_unavailable_patches(fetched, UnavailableComponents(config))
                      ELSE fetched
       IN /\ courses_data' = patched
          /\ scheduler_cache' =
                 IF ~args.no_cache
                 THEN SetKey(scheduler_cache,
                             [key |-> get_cache_key(config["courses"]),
                              timestamp |-> now,
                              unavailable_components |-> UnavailableComponents(config),
                              data |-> patched])
                 ELSE scheduler_cache
    /\ mpc' = AfterData
    /\ UNCHANGED <<max_english, max_french, no_weekends, max_days, pc,
                   all_course_options, course_codes, total_valid_combos, indices,
                   total_checked, all_times, conflict, valid_schedules>>
    /\ UNCHANGED <<env, config, args, run, now, prof_scores_cache, prof_data_map,
                   provider_calls, enumerated, schedules_with_scores, exported,
                   prev, callVars>>

(* prof_data_map = fetch_all_prof_data(all_instructors), the set iterated  *)
(* in any order                                                            *)
FetchAllProfData ==
    /\ mpc = "prof"
    /\ \E order \in Orders(AllInstructors(courses_data)) :
           LET fetched == fetch_all_prof_data(order, env.pages, ~args.no_cache,
                                              prof_scores_cache)
           IN /\ prof_data_map' = <<fetched.map>>
              /\ prof_scores_cache' = fetched.file
              /\ provider_calls' = fetched.calls
    /\ mpc' = "generate"
    /\ UNCHANGED genVars
    /\ UNCHANGED <<env, config, args, run, now, scheduler_cache, enumerated,
                   schedules_with_scores, exported, prev, callVars>>

(* generate_all_schedules(courses_data, max_english, max_french,           *)
(*                        no_weekends=args.no_weekends, max_days=args.max_days) *)
CallGenerate ==
    /\ mpc = "generate"
    /\ no_weekends' = args.no_weekends
    /\ max_days' = args.max_days
    /\ pc' = IF Len(courses_data) > 0 THEN "build" ELSE "count"
    /\ mpc' = "generating"
    /\ UNCHANGED <<courses_data, max_english, max_french, all_course_options,
                   course_codes, total_valid_combos, indices, total_checked,
                   all_times, conflict, valid_schedules>>
    /\ UNCHANGED <<env, config, args, run, now, scheduler_cache, prof_scores_cache,
                   prof_data_map, provider_calls, enumerated,
                   schedules_with_scores, exported, prev, callVars>>

(* if args.rank_by_prof and prof_data_map *)
RankingPerformed ==
    args.rank_by_prof /\ prof_data_map # << >> /\ prof_data_map[1] # << >>

(* The schedules returned are ranked if ranking was asked for and the      *)
(* professor map is not empty                                              *)
RankSchedules ==
    /\ mpc = "generating"
    /\ pc = "done"
    /\ enumerated' = valid_schedules
    /\ IF RankingPerformed
       THEN LET ranked == sort_reverse(ScoredPairs(valid_schedules, prof_data_map[1]))
            IN /\ schedules_with_scores' = ranked
               /\ valid_schedules' = [k \in 1..Len(ranked) |-> ranked[k].schedule]
       ELSE UNCHANGED <<schedules_with_scores, valid_schedules>>
    /\ mpc' = "output"
    /\ UNCHANGED <<courses_data, max_english, max_french, no_weekends, max_days, pc,
                   all_course_options, course_codes, total_valid_combos, indices,
                   total_checked, all_times, conflict>>
    /\ UNCHANGED <<env, config, args, run, now, scheduler_cache, prof_scores_cache,
                   prof_data_map, provider_calls, exported, prev, callVars>>

(* The schedules are printed or exported *)
Output ==
    /\ mpc = "output"
    /\ exported' = Shown(valid_schedules, args)
    /\ mpc' = "done"
    /\ UNCHANGED genVars
    /\ UNCHANGED <<env, config, args, run, now, scheduler_cache, prof_scores_cache,
                   prof_data_map, provider_calls, enumerated,
                   schedules_with_scores, prev, callVars>>

(* What a run was given and what it produced *)
RunRecord ==
    [mpc |-> mpc, courses_data |-> courses_data, max_english |-> max_english,
     max_french |-> max_french, no_weekends |-> no_weekends, max_days |-> max_days,
     ranked |-> RankingPerformed, prof_data_map |-> prof_data_map,
     enumerated |-> enumerated, valid_schedules |-> valid_schedules,
     schedules_with_scores |-> schedules_with_scores]

(* The program is run again, some time later: only the two cache files     *)
(* are left of the run before                                              *)
RunAgain ==
    /\ mpc \in {"done", "KeyError"}
    /\ run < MaxRuns
    /\ run' = run + 1
    /\ \E delay \in env.delays : now' = now + delay
    /\ prev' = IF mpc = "done" THEN <<RunRecord>> ELSE << >>
    /\ mpc' = "start"
    /\ config' = << >>
    /\ args' = << >>
    /\ prof_data_map' = << >>
    /\ provider_calls' = << >>
    /\ enumerated' = << >>
    /\ schedules_with_scores' = << >>
    /\ exported' = << >>
    /\ courses_data' = << >>
    /\ max_english' = -1
    /\ max_french' = -1
    /\ no_weekends' = FALSE
    /\ max_days' = << >>
    /\ pc' = "idle"
    /\ all_course_options' = << >>
    /\ course_codes' = << >>
    /\ total_valid_combos' = 1
    /\ indices' = << >>
    /\ total_checked' = 0
    /\ all_times' = << >>
    /\ conflict' = FALSE
    /\ valid_schedules' = << >>
    /\ UNCHANGED <<env, scheduler_cache, prof_scores_cache, callVars>>

NextMain ==
    \/ LoadConfig
    \/ CacheLookup
    \/ FetchFresh
    \/ FetchAllProfData
    \/ CallGenerate
    \/ BuildCourse
    \/ CountCombos
    \/ CheckCombo
    \/ Return
    \/ RankSchedules
    \/ Output
    \/ RunAgain

-----------------------------------------------------------------------------
(* The worlds main runs in: the settings (command line and config.json) a  *)
(* run can be started with, the catalogue of the course data provider, the *)
(* professor pages, and the time that can pass between two runs            *)

ITI1100 == <<"ITI", 1, 1, 0, 0>>
ITI1500 == <<"ITI", 1, 5, 0, 0>>
MAT1320 == <<"MAT", 1, 3, 2, 0>>
CSI2001 == <<"CSI", 2, 0, 0, 1>>
CSI2401 == <<"CSI", 2, 4, 0, 1>>
CSI2911 == <<"CSI", 2, 9, 1, 1>>
CSI2511 == <<"CSI", 2, 5, 1, 1>>

(* A component of the catalogue, OPEN or not *)
CatalogueComponent(course_code, section_id, rest, type, status, slot, instructor) ==
    [guid |-> <<course_code, section_id, rest>>, label |-> <<section_id, rest>>,
     status |-> status, type |-> type, day |-> slot.day,
     start_timestamp |-> slot.start_timestamp,
     end_timestamp |-> slot.end_timestamp, instructor |-> instructor]

CatalogueSection(section_id, instructor, components) ==
    [id |-> section_id, instructor |-> instructor, components |-> components]

(* A section of one open lecture *)
LectureSection(course_code, section_id, instructor, day) ==
    CatalogueSection(section_id, instructor,
        <<CatalogueComponent(course_code, section_id, "00-LEC", "LEC", "OPEN",
                             Slot(day, 30600, 35400), instructor)>>)

(* A section of one open lecture and two open labs *)
LabSection(course_code, section_id, instructor, day) ==
    CatalogueSection(section_id, instructor,
        <<CatalogueComponent(course_code, section_id, "00-LEC", "LEC", "OPEN",
                             Slot(day, 30600, 35400), instructor),
          CatalogueComponent(course_code, section_id, "01-LAB", "LAB", "OPEN",
                             Slot(day, 36000, 41400), "Staff"),
          CatalogueComponent(course_code, section_id, "02-LAB", "LAB", "OPEN",
                             Slot(day, 41400, 46800), "Staff")>>)

(* What get_relevant_data returns for a professor it finds *)
Page(rating, difficulty, grade, average) ==
    <<[rmp_rating |-> <<rating>>, rmp_difficulty |-> <<difficulty>>,
       total_ratings |-> <<1200000>>, prof_overall_grade |-> <<grade>>,
       avg_grade_in_courses |-> average]>>

Arguments(rank_by_prof, no_cache) ==
    [rank_by_prof |-> rank_by_prof, no_cache |-> no_cache,
     clear_prof_cache |-> FALSE, no_weekends |-> FALSE, max_days |-> << >>,
     print |-> FALSE, max_display |-> << >>]

Unlimited(courses) ==
    [courses |-> courses, max_english |-> -1, max_french |-> -1]

(* Two courses, two professors who teach sections of both, and a third    *)
(* whose page has no course averages: every run ranks or not, with the     *)
(* caches or without                                                       *)
RankingCatalogue ==
    ITI1100 :> <<LectureSection(ITI1100, "A", InstructorPool[1], "MO"),
                 LectureSection(ITI1100, "B", InstructorPool[2], "TU")>>
    @@ ITI1500 :> <<LectureSection(ITI1500, "A", InstructorPool[3], "MO")>>
    @@ MAT1320 :> <<LectureSection(MAT1320, "A", InstructorPool[1], "WE"),
                    LectureSection(MAT1320, "B", InstructorPool[2], "TH")>>

RankingPages ==
    {InstructorPool[1] :> Page(450000, 280000, 712345, <<700005>>)
     @@ InstructorPool[2] :> Page(r, 280000, 712345, <<700005>>)
     @@ InstructorPool[3] :> third :
        r \in {450000, 320000, 480000},
        third \in {<< >>, Page(450000, 310000, 650004, << >>),
                   Page(450000, 310000, 650004, <<689993>>)}}

RankingSettings ==
    {[args |-> Arguments(rank, no_cache), config |-> Unlimited(<<ITI1100, MAT1320>>)] :
        rank \in BOOLEAN, no_cache \in BOOLEAN}
    \cup {[args |-> Arguments(TRUE, FALSE), config |-> Unlimited(<< >>)],
          [args |-> Arguments(TRUE, FALSE), config |-> Unlimited(<<MAT1320>>)]}

RankingWorlds ==
    {[settings |-> RankingSettings, catalogue |-> RankingCatalogue,
      pages |-> pages, delays |-> {60},
      cache_file |-> << >>] : pages \in RankingPages}

(* One course, and configurations of every kind: complete, with a key      *)
(* missing, with a language bound below -1, with --max-days outside 1..7   *)
ConfigCatalogue ==
    ITI1100 :> <<LectureSection(ITI1100, "A", InstructorPool[1], "MO")>>
    @@ ITI1500 :> <<LectureSection(ITI1500, "A", InstructorPool[2], "SA")>>

ConfigFiles ==
    {[courses |-> <<ITI1100>>, max_english |-> me, max_french |-> mf] :
        me \in {-2, -1, 1}, mf \in {-2, -1, 0}}
    \cup {[max_english |-> -1, max_french |-> -1],
          [courses |-> <<ITI1100>>, max_french |-> -1],
          [courses |-> <<ITI1100>>, max_english |-> -1],
          << >>}

ConfigSettings ==
    {[args |-> Arguments(FALSE, TRUE), config |-> c] : c \in ConfigFiles}
    \cup {[args |-> [Arguments(FALSE, TRUE) EXCEPT !.max_days = <<d>>, !.no_weekends = nw],
           config |-> Unlimited(<<ITI1100>>)] : d \in {0, 1, 7, 8}, nw \in BOOLEAN}
    \cup {[args |-> [Arguments(TRUE, FALSE) EXCEPT !.clear_prof_cache = TRUE],
           config |-> Unlimited(<<ITI1100>>)]}

(* The first professor has a score, the second has no page *)
FewPages ==
    InstructorPool[1] :> Page(450000, 280000, 712345, <<700005>>)
    @@ InstructorPool[2] :> << >>
    @@ "Staff" :> << >>

ConfigWorlds ==
    {[settings |-> ConfigSettings, catalogue |-> ConfigCatalogue,
      pages |-> FewPages, delays |-> {60},
      cache_file |-> << >>]}

(* Courses configured under an English code, under a French code, and     *)
(* under codes whose designated digit is 0 or 9; the schedules exported,   *)
(* or the first of them printed                                            *)
DisplayCatalogue ==
    ITI1100 :> <<LectureSection(ITI1100, "A", InstructorPool[1], "MO")>>
    @@ ITI1500 :> <<LectureSection(ITI1500, "A", InstructorPool[2], "TU")>>
    @@ CSI2001 :> <<LectureSection(CSI2001, "A", InstructorPool[1], "WE")>>
    @@ CSI2401 :> <<LectureSection(CSI2401, "A", InstructorPool[2], "TH")>>
    @@ CSI2911 :> <<LectureSection(CSI2911, "A", InstructorPool[1], "WE")>>
    @@ CSI2511 :> <<LectureSection(CSI2511, "A", InstructorPool[2], "TH")>>

DisplaySettings ==
    {[args |-> [Arguments(FALSE, TRUE) EXCEPT !.print = pr, !.max_display = <<1>>],
      config |-> Unlimited(courses)] :
        pr \in BOOLEAN,
        courses \in {<<ITI1100>>, <<ITI1500>>, <<CSI2001>>, <<CSI2911>>,
                     <<ITI1500, CSI2001>>}}

DisplayWorlds ==
    {[settings |-> DisplaySettings, catalogue |-> DisplayCatalogue,
      pages |-> FewPages, delays |-> {60},
      cache_file |-> << >>]}

(* Two courses configured in either order, with no component marked       *)
(* unavailable, or a lab, or the lecture under the French code of the      *)
(* course; runs with the cache and without, a minute or five minutes apart *)
CacheCatalogue ==
    ITI1100 :> <<LabSection(ITI1100, "A", InstructorPool[1], "MO")>>
    @@ ITI1500 :> <<LectureSection(ITI1500, "A", InstructorPool[2], "TU")>>
    @@ MAT1320 :> <<LectureSection(MAT1320, "A", InstructorPool[1], "WE"),
                    LectureSection(MAT1320, "B", InstructorPool[2], "TH")>>

UnavailableLists ==
    {<<[course |-> ITI1100, component |-> <<"A", "01-LAB">>]>>,
     <<[course |-> ITI1500, component |-> <<"A", "00-LEC">>]>>}

CacheConfigs ==
    {Unlimited(courses) : courses \in {<<ITI1100, MAT1320>>, <<MAT1320, ITI1100>>}}
    \cup {[courses |-> <<ITI1100, MAT1320>>, max_english |-> -1, max_french |-> -1,
           unavailable_components |-> u] : u \in UnavailableLists}

CacheSettings ==
    {[args |-> Arguments(FALSE, no_cache), config |-> c] :
        no_cache \in BOOLEAN, c \in CacheConfigs}

(* What scheduler_cache.json holds before the first run, at time 1000:     *)
(* nothing, or under the key of the two courses an entry written 299 or    *)
(* 300 seconds before, with the list it was written under, without the     *)
(* list, or without the timestamp                                          *)
CachedData(unavailable_components) ==
    apply_unavailable_patches(FetchCourses(CacheCatalogue, <<ITI1100, MAT1320>>, << >>),
                              unavailable_components)

CacheFiles ==
    {<< >>}
    \cup {<<[key |-> get_cache_key(<<ITI1100, MAT1320>>), timestamp |-> t,
             data |-> CachedData(<< >>)]>> : t \in {700, 701}}
    \cup {<<[key |-> get_cache_key(<<ITI1100, MAT1320>>), timestamp |-> 701,
             unavailable_components |-> u, data |-> CachedData(u)]>> :
              u \in UnavailableLists}
    \cup {<<[key |-> get_cache_key(<<ITI1100, MAT1320>>),
             unavailable_components |-> << >>, data |-> CachedData(<< >>)]>>}

CacheWorlds ==
    {[settings |-> CacheSettings, catalogue |-> CacheCatalogue,
      pages |-> FewPages, delays |-> {60, SCHEDULER_CACHE_EXPIRY},
      cache_file |-> cache_file] : cache_file \in CacheFiles}

Worlds == RankingWorlds \cup ConfigWorlds \cup DisplayWorlds \cup CacheWorlds

InitMain ==
    /\ GenIdle
    /\ CallIdle
    /\ env \in Worlds
    /\ config = << >>
    /\ args = << >>
    /\ mpc = "start"
    /\ run = 1
    /\ now = 1000
    /\ scheduler_cache = env.cache_file
    /\ prof_scores_cache = << >>
    /\ prof_data_map = << >>
    /\ provider_calls = << >>
    /\ enumerated = << >>
    /\ schedules_with_scores = << >>
    /\ exported = << >>
    /\ prev = << >>

SpecMain == InitMain /\ [][NextMain]_vars

-----------------------------------------------------------------------------
(* Vocabulary of the properties of main *)

(* The run has produced its schedules *)
Produced == mpc \in {"output", "done"}

(* The dict main holds as prof_data_map *)
ProfMap == IF prof_data_map = << >> THEN << >> ELSE prof_data_map[1]

ScoreDefined(schedule) ==
    \A i \in 1..Len(schedule) : ScoreKnown(ProfMap, schedule[i].section.instructor)

(* The enumerated schedules with a defined score, by position *)
DefinedPositions == {k \in 1..Len(enumerated) : ScoreDefined(enumerated[k])}

ScoreAt(k) == SumOfSectionScores(enumerated[k], ProfMap)

(* Where the ranking puts the enumerated schedule k: after the schedules   *)
(* of higher score and the schedules of equal score enumerated before it   *)
RankOf(k) ==
    1 + Cardinality({j \in DefinedPositions :
                        \/ ScoreAt(j) > ScoreAt(k)
                        \/ ScoreAt(j) = ScoreAt(k) /\ j < k})

(* C12: with ranking, the output of main is exactly the enumerated         *)
(* schedules whose score is defined, each once, by descending score, the   *)
(* schedules of equal score in enumeration order; without ranking it is    *)
(* the whole enumeration.                                                  *)
C12_RankedOutput ==
    Produced =>
        IF args.rank_by_prof
        THEN /\ Len(valid_schedules) = Cardinality(DefinedPositions)
             /\ \A k \in DefinedPositions : valid_schedules[RankOf(k)] = enumerated[k]
        ELSE valid_schedules = enumerated

(* A ranking that left schedules out, moved a schedule ahead of one        *)
(* enumerated before it, and kept two schedules of equal score             *)
C12_Witness ==
    /\ mpc = "done"
    /\ RankingPerformed
    /\ Len(valid_schedules) < Len(enumerated)
    /\ \E j \in DefinedPositions, k \in DefinedPositions :
           j < k /\ RankOf(k) < RankOf(j)
    /\ \E j \in DefinedPositions, k \in DefinedPositions :
           j < k /\ ScoreAt(j) = ScoreAt(k)

(* The run before this one ended normally and was given what this run was *)
(* given: the same courses_data and the same constraints                   *)
SameInputsAsBefore ==
    /\ prev # << >>
    /\ prev[1].courses_data = courses_data
    /\ prev[1].max_english = max_english
    /\ prev[1].max_french = max_french
    /\ prev[1].no_weekends = no_weekends
    /\ prev[1].max_days = max_days

(* Both runs ranked, with the same professor map: the same entries, in     *)
(* whatever order they were inserted                                       *)
SameMapAsBefore ==
    /\ prev[1].ranked
    /\ RankingPerformed
    /\ Range(prev[1].prof_data_map[1]) = Range(prof_data_map[1])

SchedulesOf(instructor) ==
    {k \in 1..Len(enumerated) :
        \E i \in 1..Len(enumerated[k]) :
            enumerated[k][i].section.instructor = instructor}

(* C14: in a run get_relevant_data is called at most once for an           *)
(* instructor and not at all for an instructor the loaded score cache      *)
(* has, and the calls are those of fetch_all_prof_data: scoring the        *)
(* schedules adds none, however many schedules share an instructor, and    *)
(* an instructor whose result was unknown is not asked for again.          *)
C14_ProviderCalledOnce ==
    /\ \A i \in 1..Len(provider_calls), j \in 1..Len(provider_calls) :
           i # j => provider_calls[i].instructor # provider_calls[j].instructor
    /\ \A i \in 1..Len(provider_calls) : ~provider_calls[i].in_cache
    /\ \A i \in 1..Len(provider_calls) :
           InMap(ProfMap, provider_calls[i].instructor)

(* A run that ranked its schedules after calling the provider for an       *)
(* instructor whom several schedules share and for one whose result was    *)
(* unknown, while the score cache had another instructor                   *)
C14_Witness ==
    /\ mpc = "done"
    /\ RankingPerformed
    /\ \E i \in 1..Len(provider_calls) :
           Cardinality(SchedulesOf(provider_calls[i].instructor)) > 1
    /\ \E i \in 1..Len(provider_calls) :
           MapEntry(ProfMap, provider_calls[i].instructor).score = << >>
    /\ Len(provider_calls) < Len(ProfMap)

(* The configuration of the run is loaded *)
Loaded == mpc # "start"

(* A configuration that lacks a key main reads, or has a language bound    *)
(* that is negative and not the sentinel -1, or max days outside 1..7      *)
Malformed ==
    IF ~(ConfigKeysRead \subseteq DOMAIN config) THEN TRUE
    ELSE \/ config["max_english"] < -1
         \/ config["max_french"] < -1
         \/ args.max_days # << >> /\ args.max_days[1] \notin 1..7

(* C16: with a malformed or incomplete configuration the run ends in a     *)
(* fatal configuration error before any enumeration begins:                *)
(* generate_all_schedules is not entered, no candidate is enumerated and   *)
(* no schedules are produced.                                              *)
C16_ConfigurationErrors ==
    (Loaded /\ Malformed) =>
        /\ pc = "idle"
        /\ total_checked = 0
        /\ ~Produced

(* C18: every option printed or exported is shown under a course code     *)
(* that agrees with its language tag: is_french of the code shown is true  *)
(* for an option tagged french and false for an option tagged english.     *)
C18_DisplayCodeAgrees ==
    \A k \in 1..Len(exported) : \A i \in 1..Len(exported[k]) :
        is_french(parse_course_code(exported[k][i].course_code).code)
        <=> exported[k][i].language = "french"

(* C19: in every run, with courses_data fetched or taken from the cache,  *)
(* each schedule produced has one option per configured course, the i-th   *)
(* option of the i-th course of config['courses'].                         *)
C19_OptionsInConfiguredOrder ==
    Produced =>
        \A k \in 1..Len(valid_schedules) :
            /\ Len(valid_schedules[k]) = Len(config["courses"])
            /\ \A i \in 1..Len(valid_schedules[k]) :
                   valid_schedules[k][i].course_code = config["courses"][i]

(* generate_all_schedules has been called in this run *)
Generating == mpc \in {"generating", "output", "done"}

(* courses_data was taken from the cache: the entry of the key is older    *)
(* than this run                                                           *)
FromCache ==
    /\ ~args.no_cache
    /\ HasKey(scheduler_cache, get_cache_key(config["courses"]))
    /\ "timestamp" \in DOMAIN AtKey(scheduler_cache, get_cache_key(config["courses"]))
    /\ AtKey(scheduler_cache, get_cache_key(config["courses"])).timestamp < now

(* The course at position k is the one the patch is applied to: the course *)
(* it names, or its language equivalent if courses_data lacks the former   *)
PatchedCourse(patch, k) ==
    LET p == parse_course_code(patch.course)
        Named(j) == courses_data[j].course_code = patch.course
    IN \/ Named(k)
       \/ /\ \A j \in 1..Len(courses_data) : ~Named(j)
          /\ courses_data[k].course_code = p.subject \o language_equivalent(p.code)

(* The components of courses_data a patch matches: those with its label in *)
(* the section named by the first character of the label, in either        *)
(* language of the patched course                                          *)
MatchedBy(patch) ==
    UNION {UNION {{sections[s].components[c] :
                      c \in {c \in 1..Len(sections[s].components) :
                                /\ sections[s].id = patch.component[1]
                                /\ sections[s].components[c].label = patch.component}} :
                     s \in 1..Len(sections)} :
              sections \in UNION {{courses_data[k].english, courses_data[k].french} :
                                     k \in {k \in 1..Len(courses_data) :
                                               PatchedCourse(patch, k)}}}

(* C20: the courses_data passed to generate_all_schedules has status       *)
(* CLOSED for every component matched by the unavailable_components of     *)
(* the run, whether it was fetched or taken from the cache.                *)
C20_PatchesInForce ==
    Generating =>
        \A i \in 1..Len(UnavailableComponents(config)) :
            \A component \in MatchedBy(UnavailableComponents(config)[i]) :
                component.status = "CLOSED"

(* A run that took courses_data from the cache, with a component marked    *)
(* unavailable that the catalogue has OPEN, after a run with another list  *)
C20_Witness ==
    /\ Generating
    /\ FromCache
    /\ run = MaxRuns
    /\ \E i \in 1..Len(UnavailableComponents(config)) :
           \E component \in MatchedBy(UnavailableComponents(config)[i]) :
               \E code \in DOMAIN env.catalogue :
                   \E s \in 1..Len(env.catalogue[code]) :
                       \E c \in 1..Len(env.catalogue[code][s].components) :
                           /\ env.catalogue[code][s].components[c].guid = component.guid
                           /\ env.catalogue[code][s].components[c].status = "OPEN"

-----------------------------------------------------------------------------
(* The scheduler cache *)

(* The entry of scheduler_cache.json under the key of the run *)
EntryOfRun == AtKey(scheduler_cache, get_cache_key(config["courses"]))

KeyPresent == HasKey(scheduler_cache, get_cache_key(config["courses"]))

(* The entry has a timestamp, is less than 300 seconds old, and the list    *)
(* stored with it, the empty list if none is, is the list of the run        *)
ValidAsStated(cache_entry, unavailable_components, current_time) ==
    /\ "timestamp" \in DOMAIN cache_entry
    /\ current_time - cache_entry.timestamp < 300
    /\ \/ /\ "unavailable_components" \in DOMAIN cache_entry
          /\ cache_entry.unavailable_components = unavailable_components
       \/ /\ "unavailable_components" \notin DOMAIN cache_entry
          /\ unavailable_components = << >>

(* The configuration is loaded and main is about to look into the cache *)
AtLookup == mpc = "cache"

(* The step in which main looks into the cache, and the one in which it    *)
(* fetches                                                                 *)
LookupStep == mpc = "cache" /\ mpc' # "cache"

FetchStep == mpc = "fetch" /\ mpc' # "fetch"

FreshData ==
    apply_unavailable_patches(FetchCourses(env.catalogue, config["courses"], << >>),
                              UnavailableComponents(config))

(* C21: is_cache_valid is true of an entry exactly if the entry has a      *)
(* timestamp, is strictly less than 300 seconds old and its stored list of *)
(* unavailable components, empty if absent, equals the current one; main   *)
(* takes courses_data from the cache only if the key of the sorted codes   *)
(* is present with such an entry, and otherwise fetches the courses anew.   *)
C21_CacheValidity ==
    /\ [](AtLookup /\ KeyPresent =>
             (is_cache_valid(EntryOfRun, UnavailableComponents(config), now)
              <=> ValidAsStated(EntryOfRun, UnavailableComponents(config), now)))
    /\ [][LookupStep =>
             IF /\ ~args.no_cache
                /\ KeyPresent
                /\ ValidAsStated(EntryOfRun, UnavailableComponents(config), now)
             THEN courses_data' = EntryOfRun.data /\ mpc' # "fetch"
             ELSE mpc' = "fetch"]_vars
    /\ [][FetchStep => courses_data' = FreshData]_vars

(* main has just turned down an entry that is exactly 300 seconds old and  *)
(* was written under the list of the run                                   *)
C21_Witness ==
    /\ mpc = "fetch"
    /\ ~args.no_cache
    /\ KeyPresent
    /\ "timestamp" \in DOMAIN EntryOfRun
    /\ now - EntryOfRun.timestamp = 300
    /\ cached_unavailable(EntryOfRun) = UnavailableComponents(config)

-----------------------------------------------------------------------------
(* count_languages *)

(* The attributes of a dict are its methods; its keys are not attributes *)
DictAttributes ==
    {"clear", "copy", "fromkeys", "get", "items", "keys", "pop", "popitem",
     "setdefault", "update", "values"}

(* hasattr(option, name) for an option that is a dict *)
hasattr(option, name) == name \in DictAttributes

(* for option in schedule_combo, with english_count and french_count so   *)
(* far                                                                     *)
RECURSIVE CountLoop(_, _, _)
CountLoop(schedule_combo, english_seen, french_seen) ==
    IF schedule_combo = << >> THEN <<english_seen, french_seen>>
    ELSE LET option == Head(schedule_combo)
         IN IF hasattr(option, "language")
            THEN IF option.language = "english"
                 THEN CountLoop(Tail(schedule_combo), english_seen + 1, french_seen)
                 ELSE CountLoop(Tail(schedule_combo), english_seen, french_seen + 1)
            ELSE CountLoop(Tail(schedule_combo), english_seen, french_seen)

count_languages(schedule_combo) == CountLoop(schedule_combo, 0, 0)

-----------------------------------------------------------------------------
(* apply_unavailable_patches and count_languages applied on their own *)

Call_apply_unavailable_patches ==
    /\ call.fn = "apply_unavailable_patches"
    /\ result = << >>
    /\ result' = <<[courses_data |->
                        apply_unavailable_patches(call.courses_data,
                                                  call.unavailable_components),
                    patched_count |->
                        patched_count(call.courses_data,
                                      call.unavailable_components)]>>
    /\ UNCHANGED <<call, genVars, mainVars>>

Call_count_languages ==
    /\ call.fn = "count_languages"
    /\ result = << >>
    /\ result' = <<count_languages(call.schedule_combo)>>
    /\ UNCHANGED <<call, genVars, mainVars>>

NextHelpers ==
    \/ Call_apply_unavailable_patches
    \/ Call_count_languages

MaxPatches == 2

PHY1320 == <<"PHY", 1, 3, 2, 0>>
MAT1720 == <<"MAT", 1, 7, 2, 0>>

(* ITI1100 with a lecture and two labs, its French code with a lecture;    *)
(* MAT1320 with section A and a section B whose lecture is FULL and which   *)
(* holds a component labelled as of section A; CSI2401 with a lecture      *)
PatchCatalogue ==
    ITI1100 :> <<LabSection(ITI1100, "A", InstructorPool[1], "MO")>>
    @@ ITI1500 :> <<LectureSection(ITI1500, "A", InstructorPool[2], "TU")>>
    @@ MAT1320 :> <<LectureSection(MAT1320, "A", InstructorPool[1], "WE"),
                    CatalogueSection("B", InstructorPool[2],
                        <<CatalogueComponent(MAT1320, "B", "00-LEC", "LEC", "FULL",
                                             Slot("TH", 30600, 35400),
                                             InstructorPool[2]),
                          CatalogueComponent(MAT1320, "A", "00-LEC", "LEC", "OPEN",
                                             Slot("FR", 30600, 35400),
                                             InstructorPool[2])>>)>>
    @@ CSI2401 :> <<LectureSection(CSI2401, "A", InstructorPool[3], "MO")>>

(* courses_data as fetched for two courses, and for a course whose code is *)
(* what language_equivalent returns for CSI2001                             *)
PatchData ==
    {FetchCourses(PatchCatalogue, <<ITI1100, MAT1320>>, << >>),
     FetchCourses(PatchCatalogue, <<CSI2401>>, << >>)}

(* A patch names a fetched course, the other code of one, a code whose     *)
(* second digit is 0, or a course that was not fetched under either code    *)
PatchPool ==
    {[course |-> course, component |-> component] :
        course \in {ITI1100, ITI1500, MAT1720, CSI2001, CSI2401, PHY1320},
        component \in {<<"A", "00-LEC">>, <<"A", "01-LAB">>, <<"B", "00-LEC">>}}

PatchLists == UNION {[1..n -> PatchPool] : n \in 0..MaxPatches}

(* Options as generate_all_schedules tags them *)
TaggedOptions ==
    {[section |-> LectureSection(course, "A", InstructorPool[1], "MO"),
      components |-> LectureSection(course, "A", InstructorPool[1], "MO").components,
      language |-> language, course_code |-> course] :
        course \in {ITI1100, MAT1320}, language \in {"english", "french"}}

TaggedCombos == UNION {[1..n -> TaggedOptions] : n \in 0..MaxCourses}

InitHelpers ==
    /\ GenIdle
    /\ MainIdle
    /\ result = << >>
    /\ call \in {[fn |-> "apply_unavailable_patches", courses_data |-> data,
                   unavailable_components |-> unavailable_components] :
                     data \in PatchData, unavailable_components \in PatchLists}
                \cup {[fn |-> "count_languages", schedule_combo |-> schedule_combo] :
                         schedule_combo \in TaggedCombos}

SpecHelpers == InitHelpers /\ [][NextHelpers]_vars

-----------------------------------------------------------------------------
(* Vocabulary of the property of apply_unavailable_patches *)

(* The code with its designated digit moved by 4: up if below 5, else down *)
Shifted(course_code) ==
    [course_code EXCEPT ![3] = IF @ >= 5 THEN @ - 4 ELSE @ + 4]

Fetched(data, course_code) ==
    \E k \in 1..Len(data) : data[k].course_code = course_code

(* The course a patch is about: the one it names if it was fetched, else   *)
(* the one of the shifted code if that was fetched, else none              *)
CoursesOfPatch(data, patch) ==
    IF Fetched(data, patch.course) THEN {patch.course}
    ELSE IF Fetched(data, Shifted(patch.course)) THEN {Shifted(patch.course)}
    ELSE {}

SectionsAt(data, k, language) ==
    IF language = "english" THEN data[k].english ELSE data[k].french

(* Where the components of courses_data are: course, language, section,    *)
(* component                                                                *)
ComponentPlaces(data) ==
    UNION {UNION {UNION {{<<k, language, s, c>> :
                            c \in 1..Len(SectionsAt(data, k, language)[s].components)} :
                         s \in 1..Len(SectionsAt(data, k, language))} :
                     language \in {"english", "french"}} :
              k \in 1..Len(data)}

ComponentIn(data, place) ==
    SectionsAt(data, place[1], place[2])[place[3]].components[place[4]]

(* The patch matches the component at the place *)
Hits(data, patch, place) ==
    /\ data[place[1]].course_code \in CoursesOfPatch(data, patch)
    /\ SectionsAt(data, place[1], place[2])[place[3]].id = patch.component[1]
    /\ ComponentIn(data, place).label = patch.component

(* C22: apply_unavailable_patches leaves courses_data as it was but for the *)
(* status of the components that a patch matches by label, in the section  *)
(* named by the first character of the label, of the course the patch      *)
(* names or else of its language equivalent; those are CLOSED, a patch for  *)
(* a course fetched under neither code changes nothing, and the count      *)
(* returned is the number of matches of all patches.                        *)
C22_PatchesFrame ==
    Called("apply_unavailable_patches") =>
        LET before == call.courses_data
            patches == call.unavailable_components
            after == result[1].courses_data
        IN /\ Len(after) = Len(before)
           /\ ComponentPlaces(after) = ComponentPlaces(before)
           /\ \A k \in 1..Len(before) :
                  /\ after[k].course_code = before[k].course_code
                  /\ \A language \in {"english", "french"} :
                         \A s \in 1..Len(SectionsAt(before, k, language)) :
                             [SectionsAt(after, k, language)[s] EXCEPT
                                 !.components = << >>]
                             = [SectionsAt(before, k, language)[s] EXCEPT
                                   !.components = << >>]
           /\ \A place \in ComponentPlaces(before) :
                  ComponentIn(after, place) =
                      IF \E i \in 1..Len(patches) : Hits(before, patches[i], place)
                      THEN [ComponentIn(before, place) EXCEPT !.status = "CLOSED"]
                      ELSE ComponentIn(before, place)
           /\ result[1].patched_count =
                  Cardinality({<<i, place>> \in
                                  (1..Len(patches)) \X ComponentPlaces(before) :
                                      Hits(before, patches[i], place)})

(* Two patches were applied: one names a course fetched under its other    *)
(* code and closed an OPEN component, one names a course fetched under     *)
(* neither code, and a component with the label of the first, in a section *)
(* of another id, is still OPEN                                            *)
C22_Witness ==
    /\ Called("apply_unavailable_patches")
    /\ LET before == call.courses_data
           patches == call.unavailable_components
           after == result[1].courses_data
       IN /\ \E i \in 1..Len(patches) :
                 /\ ~Fetched(before, patches[i].course)
                 /\ \E place \in ComponentPlaces(before) :
                        /\ Hits(before, patches[i], place)
                        /\ ComponentIn(before, place).status = "OPEN"
                        /\ ComponentIn(after, place).status = "CLOSED"
                 /\ \E place \in ComponentPlaces(before) :
                        /\ ComponentIn(before, place).label = patches[i].component
                        /\ ~Hits(before, patches[i], place)
                        /\ ComponentIn(after, place).status = "OPEN"
          /\ \E j \in 1..Len(patches) : CoursesOfPatch(before, patches[j]) = {}
          /\ result[1].patched_count = 1

(* C23: count_languages returns the number of options of the combination   *)
(* tagged english and the number tagged french; for a combination of       *)
(* tagged options the two add up to its length.                            *)
C23_CountLanguages ==
    Called("count_languages") =>
        /\ result[1] = <<NumTagged(call.schedule_combo, "english"),
                         NumTagged(call.schedule_combo, "french")>>
        /\ result[1][1] + result[1][2] = Len(call.schedule_combo)

-----------------------------------------------------------------------------
(* No required course *)

(* C24: with an empty courses_data generate_all_schedules checks one        *)
(* combination, the empty one, and returns it as the only schedule,         *)
(* whatever the language bounds, the weekend switch and the day bound.      *)
C24_NoCourseOneSchedule ==
    (Returned /\ courses_data = << >>) =>
        /\ total_valid_combos = 1
        /\ total_checked = 1
        /\ valid_schedules = << << >> >>

(* The call has returned for no course under the tightest constraints:     *)
(* no English and no French course, no weekend, one day at most            *)
C24_Witness ==
    /\ Returned
    /\ courses_data = << >>
    /\ max_english = 0
    /\ max_french = 0
    /\ no_weekends
    /\ max_days = <<1>>

====
